---- MODULE Spec2Model ----
(***************************************************************************)
(* A model of the SSE client of u-kai/rsse: the line classifiers of        *)
(* src/http.rs, src/http/header.rs, src/http/body.rs and                   *)
(* src/sse/response.rs, the pull-based reader SseConnection (src/sse/      *)
(* connector.rs), the read loop of SseSubscriber (src/sse/subscriber.rs),  *)
(* the incremental parser of src/response.rs and the call                  *)
(* SseClient::handle_event with its error handlers (src/lib.rs).           *)
(*                                                                         *)
(* A string is a sequence of one-character strings, so that prefix tests,  *)
(* replace, trim, split and integer parsing are computed character by      *)
(* character as the Rust code computes them.                               *)
(***************************************************************************)
EXTENDS Integers, Sequences, FiniteSets, TLC

VARIABLES
    \* ---- SseSubscriber / SseConnection (src/sse) ----
    socket,           \* FakeTcpConnection.responses: the read_line outcomes still to come
    pc,               \* position of the subscribe call: idle, reading, handling, returned
    mode,             \* "subscribe" or "subscribe_mut"
    pending,          \* the SseResponse carried by the last Progress, not yet handled
    events,           \* MockHandler.events: the arguments of handle, in call order
    acc,              \* StringReturnHandler.result: the Data payloads pushed so far
    lastRet,          \* what the last handle call returned
    resultRet,        \* what Handler.result returned
    resultCalls,      \* number of Handler.result calls of this subscribe call
    readCalls,        \* number of SseConnection.read calls of this subscribe call
    consumed,         \* the read_line outcomes taken from the socket by this subscribe call
    outcome,          \* what subscribe returned
    connected_times,  \* FakeSseConnector.connected_times
    calls,            \* number of subscribe / subscribe_mut calls made so far
    \* ---- SseConnection used directly (src/sse/connector.rs tests) ----
    last,             \* the result of the last SseConnection.read call
    taken,            \* the read_line outcomes that call took from the socket
    \* ---- SseResponse::from_line as a function (src/sse/response.rs) ----
    input,            \* the line given to from_line
    output,           \* what from_line returned for it
    \* ---- the incremental parser (src/response.rs) ----
    response,         \* the SseResponse value being folded by add_line
    history,          \* the lines added since the response was created
    addResult,        \* Ok / Err of the last add_line
    \* ---- SseClient::handle_event (src/lib.rs) ----
    cpc,              \* position of the handle_event call
    proxy_url,        \* SseClient.proxy_url is Some
    error_handler,    \* the ErrorHandler the client was built with
    net,              \* whether the connect and the request write of this run succeed
    reader,           \* what the BufReader of subscribe_stream still has to give
    connects,         \* connections opened by this call (connect_proxy / build)
    sends,            \* requests written by this call (subscribe_stream)
    reads,            \* lines read from the reader by this call
    catches,          \* ErrorHandler.catch calls of this call
    retries,          \* how many of them returned Retry
    count,            \* ErrHandler.count
    handled,          \* EventHandler.handle calls of this call
    caught,           \* the error handed to catch, while it is being caught
    clientRet,        \* what handle_event returned
    \* ---- the CONNECT exchange with a proxy (src/sse/connector.rs, src/subscriber.rs) ----
    proxy_impl,       \* whose exchange it is: ClientConnection or SubscriberBuilder
    tcp_stream,       \* the socket to the proxy: what was written, read, is still to come
    buf,              \* the read buffer, up to the last byte a read has filled
    ppc,              \* position of the exchange: idle, reading, returned
    proxyRet,         \* what proxy_connection / connect_proxy returned
    \* ---- RequestBuilder (src/http/request.rs) ----
    request_builder,  \* the RequestBuilder value: url, method, headers, body
    configured,       \* the header / json / bearer_auth calls made on it, in order
    request,          \* Request.value, once build was called
    \* ---- SseHandler::handle_subscribe_event (src/event_handler.rs) ----
    stream,           \* what the reader of subscribe_stream gives: the read_line outcomes
    nread,            \* how many of them read_line has returned
    lineBuf,          \* line, the String the loop reads into
    read_len,         \* the length read_line returned last
    response_store,   \* the SseResponseStore of the call
    handlers,         \* the error handlers of the SseHandler, and whether the request can be sent
    handled_events,   \* the arguments of EventHandler::handle, in call order
    catch_calls,      \* the catch_* functions run by the call
    hpc,              \* position of the call: idle, reading, returned
    handlerRet,       \* what handle_subscribe_event returned
    \* ---- one connection under several subscribe calls (src/sse/subscriber.rs) ----
    leftover,         \* the lines the calls before had left unread when the call began
    fresh,            \* how many lines were set on the connector since the last call began
    \* ---- SseClient (src/client.rs) ----
    req_builder,      \* SseClient.req_builder, the Option<RequestBuilder>
    client_ops,       \* the operations called on the client, in order
    subscribed        \* the requests the send* calls gave to the subscriber, in order

vars == <<socket, pc, mode, pending, events, acc, lastRet, resultRet, resultCalls, readCalls,
          consumed, outcome, connected_times, calls, last, taken, input, output,
          response, history, addResult, cpc, proxy_url, error_handler, net, reader,
          connects, sends, reads, catches, retries, count, handled, caught, clientRet,
          proxy_impl, tcp_stream, buf, ppc, proxyRet, request_builder, configured, request,
          stream, nread, lineBuf, read_len, response_store, handlers, handled_events,
          catch_calls, hpc, handlerRet, leftover, fresh, req_builder, client_ops,
          subscribed>>

subVars   == <<pc, mode, pending, events, acc, lastRet, resultRet, resultCalls, readCalls,
               consumed, outcome, connected_times, calls>>
connVars  == <<last, taken>>
lineVars  == <<input, output>>
storeVars == <<response, history, addResult>>
clientVars == <<cpc, proxy_url, error_handler, net, reader, connects, sends, reads,
                catches, retries, count, handled, caught, clientRet>>
proxyVars == <<proxy_impl, tcp_stream, buf, ppc, proxyRet>>
reqVars   == <<request_builder, configured, request>>
handlerVars == <<stream, nread, lineBuf, read_len, response_store, handlers, handled_events,
                 catch_calls, hpc, handlerRet>>
reuseVars == <<leftover, fresh>>
sseClientVars == <<req_builder, client_ops, subscribed>>

-----------------------------------------------------------------------------
(* Bounds of the model.                                                    *)

\* The longest payload s of a line "data: " + s + CRLF given to from_line.
MaxPayloadLen == 5
\* The number of read_line outcomes scripted on the subscriber's socket.
MaxLines == 4
\* The number of read_line outcomes scripted on a socket read with SseConnection alone.
MaxConnLines == 4
\* The same, for the scripts of error responses.
MaxErrLines == 5
\* The number of subscribe calls made on one subscriber.
MaxCalls == 2
\* The number of lines given to one SseResponseStore of src/response.rs.
MaxAdds == 5
\* The number of read_line outcomes scripted on a socket whose event stream is read.
MaxBodyLines == 4
\* The longest value v of a line "retry:" + v + CRLF drawn from the short alphabet.
MaxRetryLen == 3
\* The longest code field of a status line "HTTP/1.1 " + code + " X" + CRLF.
MaxCodeLen == 3

-----------------------------------------------------------------------------
(* Characters and strings.                                                 *)

None == <<"<None>">>

Digits == {"0", "1", "2", "3", "4", "5", "6", "7", "8", "9"}

\* char::is_whitespace, on the characters of the model
IsWhitespace(c) == c \in {" ", "\t", "\r", "\n"}

DigitVal(c) ==
    CASE c = "0" -> 0 [] c = "1" -> 1 [] c = "2" -> 2 [] c = "3" -> 3 [] c = "4" -> 4
      [] c = "5" -> 5 [] c = "6" -> 6 [] c = "7" -> 7 [] c = "8" -> 8 [] c = "9" -> 9

\* str::starts_with
StartsWith(s, p) == Len(s) >= Len(p) /\ SubSeq(s, 1, Len(p)) = p

\* str::contains for a one-character pattern
Contains(s, c) == \E i \in 1..Len(s) : s[i] = c

\* the index of the first occurrence of character c in s (0: none)
RECURSIVE FindFrom(_, _, _)
FindFrom(s, c, i) ==
    IF i > Len(s) THEN 0 ELSE IF s[i] = c THEN i ELSE FindFrom(s, c, i + 1)
Find(s, c) == FindFrom(s, c, 1)

\* str::replace(p, ""): every non-overlapping occurrence of p, left to right, removed
RECURSIVE Remove(_, _)
Remove(s, p) ==
    IF s = <<>> THEN <<>>
    ELSE IF StartsWith(s, p) THEN Remove(SubSeq(s, Len(p) + 1, Len(s)), p)
    ELSE <<Head(s)>> \o Remove(Tail(s), p)

RECURSIVE TrimStart(_)
TrimStart(s) ==
    IF s # <<>> /\ IsWhitespace(Head(s)) THEN TrimStart(Tail(s)) ELSE s

RECURSIVE TrimEnd(_)
TrimEnd(s) ==
    IF s # <<>> /\ IsWhitespace(s[Len(s)]) THEN TrimEnd(SubSeq(s, 1, Len(s) - 1)) ELSE s

\* str::trim
Trim(s) == TrimEnd(TrimStart(s))

\* str::split(c): the pieces between the occurrences of c, empty pieces kept
RECURSIVE Split(_, _)
Split(s, c) ==
    LET i == Find(s, c)
    IN  IF i = 0 THEN <<s>>
        ELSE <<SubSeq(s, 1, i - 1)>> \o Split(SubSeq(s, i + 1, Len(s)), c)

\* the index of the last character of the word that starts at index i of t
RECURSIVE WordEnd(_, _)
WordEnd(t, i) == IF i > Len(t) \/ IsWhitespace(t[i]) THEN i - 1 ELSE WordEnd(t, i + 1)

\* str::split_whitespace: the maximal runs of non-whitespace characters
RECURSIVE SplitWords(_)
SplitWords(t) ==
    IF t = <<>> THEN <<>>
    ELSE <<SubSeq(t, 1, WordEnd(t, 1))>>
             \o SplitWords(TrimStart(SubSeq(t, WordEnd(t, 1) + 1, Len(t))))
SplitWhitespace(s) == SplitWords(TrimStart(s))

\* the index at which the first occurrence of p in s starts (0: none)
RECURSIVE FindStr(_, _, _)
FindStr(s, p, i) ==
    IF i + Len(p) - 1 > Len(s) THEN 0
    ELSE IF SubSeq(s, i, i + Len(p) - 1) = p THEN i
    ELSE FindStr(s, p, i + 1)

\* the concatenation of a sequence of strings
RECURSIVE Flatten(_)
Flatten(ss) == IF ss = <<>> THEN <<>> ELSE Head(ss) \o Flatten(Tail(ss))

\* all the strings over alphabet A of length at most n
RECURSIVE StringsUpTo(_, _)
StringsUpTo(A, n) ==
    IF n = 0 THEN {<<>>}
    ELSE LET shorter == StringsUpTo(A, n - 1)
         IN  shorter \cup {Append(s, c) : s \in shorter, c \in A}

-----------------------------------------------------------------------------
(* u32 parsing.  A u32 is kept as its canonical decimal digits (no leading *)
(* zero), because 2^32 - 1 exceeds the integers of the checker; DecVal     *)
(* gives the number for the short ones.                                    *)

U32MaxDigits == <<"4", "2", "9", "4", "9", "6", "7", "2", "9", "5">>

RECURSIVE StripZeros(_)
StripZeros(d) == IF Len(d) > 1 /\ Head(d) = "0" THEN StripZeros(Tail(d)) ELSE d

\* a < b for digit strings of the same length
RECURSIVE DigitsLess(_, _)
DigitsLess(a, b) ==
    IF a = <<>> THEN FALSE
    ELSE IF DigitVal(Head(a)) # DigitVal(Head(b)) THEN DigitVal(Head(a)) < DigitVal(Head(b))
    ELSE DigitsLess(Tail(a), Tail(b))

FitsU32(d) ==
    \/ Len(d) < Len(U32MaxDigits)
    \/ Len(d) = Len(U32MaxDigits) /\ (d = U32MaxDigits \/ DigitsLess(d, U32MaxDigits))

\* str::parse::<u32>: an optional '+', then one or more digits, no overflow
ParseU32(s) ==
    LET body == IF s # <<>> /\ Head(s) = "+" THEN Tail(s) ELSE s
    IN  IF body = <<>> \/ \E i \in 1..Len(body) : body[i] \notin Digits THEN None
        ELSE IF FitsU32(StripZeros(body)) THEN StripZeros(body)
        ELSE None

RECURSIVE DecVal(_)
DecVal(d) == IF d = <<>> THEN 0 ELSE 10 * DecVal(SubSeq(d, 1, Len(d) - 1)) + DigitVal(d[Len(d)])

-----------------------------------------------------------------------------
(* src/sse/response.rs: SseResponse                                        *)

DataPrefix  == <<"d", "a", "t", "a", ":">>
EventPrefix == <<"e", "v", "e", "n", "t", ":">>
IdPrefix    == <<"i", "d", ":">>
RetryPrefix == <<"r", "e", "t", "r", "y", ":">>

Ev(k, v) == [kind |-> k, val |-> v]
SseErr(k) == [kind |-> k, val |-> <<>>]
NoEvent == [kind |-> "None", val |-> <<>>]

IsSseOk(r) == r.kind \in {"Data", "Event", "Id", "Retry"}

\* SseResponse::trim: line.replace(res_type, "").trim()
SseTrim(line, res_type) == Trim(Remove(line, res_type))

\* SseResponse::from_line
SseFromLine(line) ==
    IF StartsWith(line, DataPrefix) THEN Ev("Data", SseTrim(line, DataPrefix))
    ELSE IF StartsWith(line, EventPrefix) THEN Ev("Event", SseTrim(line, EventPrefix))
    ELSE IF StartsWith(line, IdPrefix) THEN Ev("Id", SseTrim(line, IdPrefix))
    ELSE IF StartsWith(line, RetryPrefix)
         THEN LET retry == ParseU32(SseTrim(line, RetryPrefix))
              IN  IF retry = None THEN SseErr("InvalidRetry") ELSE Ev("Retry", retry)
    ELSE SseErr("InvalidFormat")

-----------------------------------------------------------------------------
(* SseResponse::from_line applied to the lines "data: " + s + CRLF.        *)

CRLF == <<"\r", "\n">>
SP == <<" ">>

PayloadAlphabet == {"d", "a", "t", ":", " "}
Payloads == StringsUpTo(PayloadAlphabet, MaxPayloadLen)

\* the string s of the line "data: " + s + CRLF
PayloadOf(line) == SubSeq(line, Len(DataPrefix) + 2, Len(line) - Len(CRLF))

-----------------------------------------------------------------------------
(* src/http.rs: HttpStatusLine, HttpVersion, HttpStatusCode                *)

HTTP11 == <<"H", "T", "T", "P", "/", "1", ".", "1">>

\* the numbers of the match arms of HttpStatusCode::from_num
KnownCodes ==
    {100, 101, 102, 103,
     200, 201, 202, 203, 204, 205, 206, 207, 208, 226,
     300, 301, 302, 303, 304, 305, 306, 307, 308,
     400, 401, 402, 403, 404, 405, 406, 407, 408, 409, 410, 411, 412, 413, 414, 415,
     416, 417, 418, 421, 422, 423, 424, 425, 426, 428, 429, 431, 451,
     500, 501, 502, 503, 504, 505, 506, 507, 508, 510, 511}

\* A variant of HttpStatusCode is named by the number of its match arm;
\* HttpStatusCode::Unknown, which carries no number, by UnknownCode.
UnknownCode == -1

\* HttpVersion::from_str
HttpVersionFromStr(version) == IF version = HTTP11 THEN "V1_1" ELSE "None"

\* HttpStatusCode::from_num, on the canonical digits of the u32
HttpStatusCodeFromNum(num) ==
    IF Len(num) <= 3 /\ DecVal(num) \in KnownCodes THEN DecVal(num) ELSE UnknownCode

\* HttpStatusCode::from_num_str
HttpStatusCodeFromNumStr(s) ==
    IF ParseU32(s) = None THEN [ok |-> FALSE, code |-> UnknownCode]
    ELSE [ok |-> TRUE, code |-> HttpStatusCodeFromNum(ParseU32(s))]

\* Into<u32> for HttpStatusCode / HttpStatusCode::num
HttpStatusCodeNum(code) == IF code = UnknownCode THEN 0 ELSE code

\* HttpStatusCode::is_error
HttpStatusCodeIsError(code) == HttpStatusCodeNum(code) >= 400

NoStatusLine == [ok |-> FALSE, version |-> "None", status_code |-> UnknownCode]

\* HttpStatusLine::from_str
HttpStatusLineFromStr(line) ==
    LET split_line == Split(line, " ")
    IN  IF Len(split_line) < 3 THEN NoStatusLine
        ELSE IF HttpVersionFromStr(split_line[1]) = "None" THEN NoStatusLine
        ELSE IF ~HttpStatusCodeFromNumStr(split_line[2]).ok THEN NoStatusLine
        ELSE [ok |-> TRUE,
              version |-> HttpVersionFromStr(split_line[1]),
              status_code |-> HttpStatusCodeFromNumStr(split_line[2]).code]

-----------------------------------------------------------------------------
(* src/http/header.rs, src/http/body.rs, src/http/response.rs              *)

\* HttpHeader::new: a header map is a function from names to values
HttpHeaderNew == <<>>

\* HttpHeader::from_line: splitn(2, ":"), name and value trimmed
HttpHeaderFromLine(line) ==
    LET i == Find(line, ":")
    IN  IF i = 0 THEN [ok |-> FALSE, headers |-> HttpHeaderNew]
        ELSE [ok |-> TRUE,
              headers |-> (Trim(SubSeq(line, 1, i - 1))
                              :> Trim(SubSeq(line, i + 1, Len(line))))]

\* HttpHeader::concat, mutated: an entry the map already has is kept
HttpHeaderConcatKeepFirst(self, other) == self @@ other

\* HttpHeader::concat: HashMap::extend, the added entries replace the old ones
HttpHeaderConcat(self, other) == other @@ self

\* HttpHeader::get
HttpHeaderGet(self, key) == IF key \in DOMAIN self THEN self[key] ELSE None

\* HttpBody::new, HttpBody::from_line
HttpBodyNew == <<>>
HttpBodyFromLine(line) == line

\* HttpBody::concat, mutated: the added text is put in front
HttpBodyConcatFront(self, other) == other \o self

\* HttpBody::concat: push_str
HttpBodyConcat(self, other) == self \o other

\* HttpResponse::new
HttpResponseNew(status_line, header, body) ==
    [status_line |-> status_line, header |-> header, body |-> body]

NoResponse == HttpResponseNew(NoStatusLine, HttpHeaderNew, HttpBodyNew)

\* HttpResponse::status_code, get_header, body_str, is_error
ResponseStatusCode(r) == HttpStatusCodeNum(r.status_line.status_code)
ResponseGetHeader(r, key) == HttpHeaderGet(r.header, key)
ResponseBodyStr(r) == r.body
ResponseIsError(r) == ResponseStatusCode(r) >= 400

-----------------------------------------------------------------------------
(* src/sse/connector.rs: Socket, SseConnection                             *)

\* the outcomes of Socket::read_line: Ok(Some(line)) and Err(io error);
\* Ok(None), end of stream, is the empty script
Line(text) == [kind |-> "line", text |-> text]
IoError == [kind |-> "err", text |-> <<>>]

\* SseConnection::http_error: every line up to end of stream (or a read error,
\* which map_or(None, ..) turns into end of stream) goes to the header or the body
RECURSIVE HttpErrorLoop(_, _, _, _)
HttpErrorLoop(q, header, body, n) ==
    IF q = <<>> THEN [header |-> header, body |-> body, n |-> n]
    ELSE IF Head(q).kind = "err" THEN [header |-> header, body |-> body, n |-> n + 1]
    ELSE LET line == Head(q).text
             add_header == HttpHeaderFromLine(line)
         IN  IF add_header.ok
             THEN HttpErrorLoop(Tail(q), HttpHeaderConcat(header, add_header.headers),
                                body, n + 1)
             ELSE HttpErrorLoop(Tail(q), header,
                                HttpBodyConcat(body, HttpBodyFromLine(line)), n + 1)

HttpError(q, http_status) ==
    LET a == HttpErrorLoop(q, HttpHeaderNew, HttpBodyNew, 0)
    IN  [resp |-> HttpResponseNew(http_status, a.header, a.body), n |-> a.n]

ReadResult(k, ev, resp, n) == [kind |-> k, ev |-> ev, resp |-> resp, n |-> n]
NoRead == ReadResult("None", NoEvent, NoResponse, 0)

\* the tests SseConnection::read makes on a line, in its order, mutated: the
\* header test comes before the SSE test
LineClassHeaderFirst(line) ==
    IF HttpStatusLineFromStr(line).ok
    THEN IF ~HttpStatusCodeIsError(HttpStatusLineFromStr(line).status_code)
         THEN "status" ELSE "error_status"
    ELSE IF HttpHeaderFromLine(line).ok THEN "header"
    ELSE IF IsSseOk(SseFromLine(line)) THEN "sse"
    ELSE "other"

\* the tests SseConnection::read makes on a line, mutated: the result of from_line is
\* returned without the test for Ok
LineClassEveryLineEvent(line) ==
    IF HttpStatusLineFromStr(line).ok
    THEN IF ~HttpStatusCodeIsError(HttpStatusLineFromStr(line).status_code)
         THEN "status" ELSE "error_status"
    ELSE "sse"

\* the tests SseConnection::read makes on a line, mutated: every status line is
\* taken for the status line of an error response
LineClassEveryStatusError(line) ==
    IF HttpStatusLineFromStr(line).ok THEN "error_status"
    ELSE IF IsSseOk(SseFromLine(line)) THEN "sse"
    ELSE IF HttpHeaderFromLine(line).ok THEN "header"
    ELSE "other"

\* the tests SseConnection::read makes on a line, in its order: a status line (error or
\* not), then an SSE field ("sse_response is look like header, so check sse_response
\* first"), then a header; a line that is none of them falls through the loop body
LineClass(line) ==
    IF HttpStatusLineFromStr(line).ok
    THEN IF ~HttpStatusCodeIsError(HttpStatusLineFromStr(line).status_code)
         THEN "status" ELSE "error_status"
    ELSE IF IsSseOk(SseFromLine(line)) THEN "sse"
    ELSE IF HttpHeaderFromLine(line).ok THEN "header"
    ELSE "other"

\* the loop of SseConnection::read on a socket whose coming read_line outcomes are q,
\* n of them already taken by this call: the result and the number of outcomes taken
RECURSIVE ReadLoop(_, _)
ReadLoop(q, n) ==
    IF q = <<>> THEN ReadResult("Done", NoEvent, NoResponse, n)
    ELSE IF Head(q).kind = "err"
         THEN ReadResult("ConnectionError", NoEvent, NoResponse, n + 1)
    ELSE LET line == Head(q).text
             class == LineClass(line)
         IN  CASE class = "status" -> ReadLoop(Tail(q), n + 1)
               [] class = "error_status" ->
                    LET e == HttpError(Tail(q), HttpStatusLineFromStr(line))
                    IN  ReadResult("HttpError", NoEvent, e.resp, n + 1 + e.n)
               [] class = "sse" -> ReadResult("Progress", SseFromLine(line), NoResponse, n + 1)
               [] class = "header" -> ReadLoop(Tail(q), n + 1)
               [] OTHER -> ReadLoop(Tail(q), n + 1)

\* SseConnection::read, mutated: `if let` for `while let`, one line is read
SseConnectionReadOneLine(q) ==
    IF q # <<>> /\ Head(q).kind = "line" /\ LineClass(Head(q).text) = "sse"
    THEN ReadLoop(<<Head(q)>>, 0)
    ELSE ReadResult("Done", NoEvent, NoResponse, IF q = <<>> THEN 0 ELSE 1)

\* SseConnection::read
SseConnectionRead(q) == ReadLoop(q, 0)

-----------------------------------------------------------------------------
(* src/response.rs: the incremental parser SseResponseStore / SseResponse  *)

HTTP10 == <<"H", "T", "T", "P", "/", "1", ".", "0">>
HTTP20 == <<"H", "T", "T", "P", "/", "2", ".", "0">>

NoStartLine == [ok |-> FALSE, http_version |-> <<>>, status_code |-> 0, status_text |-> <<>>]
NoHeaders == [some |-> FALSE, map |-> <<>>]
NoBody == [some |-> FALSE, events |-> <<>>, other |-> <<>>, has_pushed |-> FALSE]

\* SseStartLine::from_line on the words of the line: HttpVersion::from_line,
\* StatusCode::from_line (the code must be an arm of StatusCode::from_num) and
\* StatusText::from_line
StartLineOfWords(words) ==
    IF Len(words) < 1 \/ words[1] \notin {HTTP10, HTTP11, HTTP20} THEN NoStartLine
    ELSE IF Len(words) < 2 \/ ParseU32(words[2]) = None THEN NoStartLine
    ELSE IF ~(Len(ParseU32(words[2])) <= 3 /\ DecVal(ParseU32(words[2])) \in KnownCodes)
         THEN NoStartLine
    ELSE IF Len(words) < 3 THEN NoStartLine
    ELSE [ok |-> TRUE, http_version |-> words[1],
          status_code |-> DecVal(ParseU32(words[2])), status_text |-> words[3]]

SseStartLineFromLine(line) == StartLineOfWords(SplitWhitespace(line))

\* SseHeader::from_line
SseHeaderFromLine(line) ==
    LET i == Find(line, ":")
    IN  IF i = 0 THEN [ok |-> FALSE, name |-> <<>>, value |-> <<>>]
        ELSE [ok |-> TRUE, name |-> Trim(SubSeq(line, 1, i - 1)),
              value |-> Trim(SubSeq(line, i + 1, Len(line)))]

\* SseHeaders::insert
SseHeadersInsert(map, header) == (header.name :> header.value) @@ map

\* SseBody::to_event: the trimmed text after the first "data:" of the line
SseBodyToEvent(line) ==
    LET i == FindStr(line, DataPrefix, 1)
    IN  IF i = 0 THEN None ELSE Trim(SubSeq(line, i + Len(DataPrefix), Len(line)))

\* FromLine for SseBody
SseBodyFromLine(line) ==
    IF SseBodyToEvent(line) = None
    THEN [some |-> TRUE, events |-> <<>>, other |-> Trim(line), has_pushed |-> FALSE]
    ELSE [some |-> TRUE, events |-> <<SseBodyToEvent(line)>>, other |-> <<>>,
          has_pushed |-> TRUE]

\* SseBody::add_line
SseBodyAddLine(body, line) ==
    IF SseBodyToEvent(line) = None
    THEN [body EXCEPT !.has_pushed = FALSE, !.other = body.other \o line]
    ELSE [body EXCEPT !.has_pushed = TRUE,
                      !.events = Append(body.events, SseBodyToEvent(line))]

SseResponseOf(start_line, headers, body, is_next_body) ==
    [some |-> TRUE, start_line |-> start_line, headers |-> headers, body |-> body,
     is_next_body |-> is_next_body]

\* SseResponseStore.response = None
NoSseResponse == [some |-> FALSE, start_line |-> NoStartLine, headers |-> NoHeaders,
                  body |-> NoBody, is_next_body |-> FALSE]

\* FromLine for SseResponse
SseResponseFromLine(line) ==
    IF SseStartLineFromLine(line).ok
    THEN [ok |-> TRUE,
          response |-> SseResponseOf(SseStartLineFromLine(line), NoHeaders, NoBody, FALSE)]
    ELSE [ok |-> FALSE, response |-> NoSseResponse]

\* the start-line branch of SseResponse::add_line, mutated: the headers are kept
AddStartLineKeepingHeaders(self, start_line) ==
    SseResponseOf(start_line, self.headers, NoBody, FALSE)

\* the start-line branch of SseResponse::add_line
AddStartLine(self, start_line) == SseResponseOf(start_line, NoHeaders, NoBody, FALSE)

\* SseResponse::add_line
SseResponseAddLine(self, line) ==
    IF SseStartLineFromLine(line).ok
    THEN [ok |-> TRUE, response |-> AddStartLine(self, SseStartLineFromLine(line))]
    ELSE IF self.is_next_body
    THEN [ok |-> TRUE,
          response |-> SseResponseOf(self.start_line, self.headers,
                                     SseBodyAddLine(self.body, line), TRUE)]
    ELSE IF SseHeaderFromLine(line).ok
    THEN [ok |-> TRUE,
          response |-> SseResponseOf(self.start_line,
                          [some |-> TRUE,
                           map |-> SseHeadersInsert(self.headers.map, SseHeaderFromLine(line))],
                          NoBody, FALSE)]
    ELSE IF line \in {CRLF \o CRLF, CRLF, <<>>}
    THEN [ok |-> TRUE,
          response |-> SseResponseOf(self.start_line, self.headers,
                                     SseBodyFromLine(line), TRUE)]
    ELSE [ok |-> FALSE, response |-> self]

\* SseResponse::header, new_event, body
SseResponseHeader(r, key) ==
    IF r.headers.some /\ key \in DOMAIN r.headers.map THEN r.headers.map[key] ELSE None
SseResponseNewEvent(r) ==
    IF r.body.some /\ r.body.has_pushed /\ r.body.events # <<>>
    THEN r.body.events[Len(r.body.events)] ELSE None
SseResponseBody(r) == IF r.body.some THEN r.body.other ELSE None

-----------------------------------------------------------------------------
(* The lines of the scripted responses.                                    *)

RECURSIVE DecStr(_)
DecStr(n) ==
    LET d == <<"0", "1", "2", "3", "4", "5", "6", "7", "8", "9">>[(n % 10) + 1]
    IN  IF n < 10 THEN <<d>> ELSE Append(DecStr(n \div 10), d)

\* "HTTP/1.1 <code> <reason>" + CRLF
StatusLineText(code, reason) == HTTP11 \o SP \o DecStr(code) \o SP \o reason \o CRLF

\* status codes in and outside the table of HttpStatusCode::from_num, below and from 400
ScriptCodes == {200, 299, 400, 404, 499}
ReasonOf(code) ==
    CASE code = 200 -> <<"O", "K">>
      [] code = 400 -> <<"B", "a", "d", " ", "R", "e", "q">>
      [] code = 404 -> <<"N", "o", "t", " ", "F", "o", "u", "n", "d">>
      [] OTHER -> <<"X">>
Status(code) == Line(StatusLineText(code, ReasonOf(code)))

HeaderA  == Line(<<"A", ":", " ", "1">> \o CRLF)
HeaderB  == Line(<<"B", ":", " ", "2">> \o CRLF)
Blank    == Line(CRLF)
DataA    == Line(DataPrefix \o <<" ", "a">> \o CRLF)
Id7      == Line(IdPrefix \o <<" ", "7">> \o CRLF)
BodyX    == Line(<<"X">> \o CRLF)
BodyY    == Line(<<"Y">> \o CRLF)

\* the code of a scripted status line (0: the outcome is no scripted status line)
ScriptCodeOf(item) ==
    IF \E c \in ScriptCodes : item = Status(c)
    THEN CHOOSE c \in ScriptCodes : item = Status(c)
    ELSE 0

ConnScript == {Status(200), Status(299), Status(404), Status(499),
               HeaderA, Blank, DataA, Id7, IoError}
ErrScript  == {Status(404), Status(200), HeaderA, HeaderB, BodyX, BodyY, DataA}
SubScript  == {Status(200), Status(400), Status(499), HeaderA, Blank, DataA, Id7, IoError}

-----------------------------------------------------------------------------
(* The parts of the state.                                                 *)

NoOutcome == [kind |-> "None", value |-> <<>>, resp |-> NoResponse]

SubIdle ==
    /\ pc = "idle" /\ mode = "none" /\ pending = NoEvent /\ events = <<>>
    /\ acc = <<>> /\ lastRet = [kind |-> "None", e |-> <<>>]
    /\ resultRet = [kind |-> "None", e |-> <<>>] /\ resultCalls = 0 /\ readCalls = 0
    /\ consumed = <<>> /\ outcome = NoOutcome /\ connected_times = 0 /\ calls = 0
ConnIdle  == last = NoRead /\ taken = <<>>
LineIdle  == input = <<>> /\ output = NoEvent
StoreIdle == response = NoSseResponse /\ history = <<>> /\ addResult = "None"
NoClientRet == [kind |-> "None", e |-> "None"]
ClientCounters ==
    /\ cpc = "idle" /\ connects = 0 /\ sends = 0 /\ reads = 0 /\ catches = 0
    /\ retries = 0 /\ count = 0 /\ handled = 0 /\ caught = "None" /\ clientRet = NoClientRet
ClientIdle ==
    /\ ClientCounters /\ proxy_url = FALSE /\ error_handler = "None"
    /\ net = [connect |-> TRUE, send |-> TRUE] /\ reader = <<>>
ReuseIdle == leftover = <<>> /\ fresh = 0
SseClientIdle == req_builder = <<>> /\ client_ops = <<>> /\ subscribed = <<>>
HandlerIdle ==
    /\ stream = <<>> /\ nread = 0 /\ lineBuf = <<>> /\ read_len = 1
    /\ response_store = NoSseResponse /\ handled_events = <<>> /\ catch_calls = <<>>
    /\ handlers = [request |-> "None", response |-> "None", send |-> TRUE]
    /\ hpc = "idle" /\ handlerRet = "None"
ReqIdle == request_builder = <<>> /\ configured = <<>> /\ request = <<>>
ProxyIdle ==
    /\ proxy_impl = "None" /\ ppc = "idle" /\ proxyRet = "None" /\ buf = <<>>
    /\ tcp_stream = [writable |-> TRUE, written |-> <<>>, read |-> <<>>, incoming |-> <<>>]

-----------------------------------------------------------------------------
(* SseResponse::from_line applied to the lines "data: " + s + CRLF.        *)

InitLine ==
    /\ input \in {DataPrefix \o SP \o s \o CRLF : s \in Payloads}
    /\ output = NoEvent
    /\ socket = <<>> /\ SubIdle /\ ConnIdle /\ StoreIdle /\ ClientIdle /\ ProxyIdle /\ ReqIdle /\ HandlerIdle /\ ReuseIdle /\ SseClientIdle

FromLine ==
    /\ output = NoEvent
    /\ output' = SseFromLine(input)
    /\ UNCHANGED <<input, socket, subVars, connVars, storeVars, clientVars, proxyVars, reqVars, handlerVars, reuseVars, sseClientVars>>

SpecLine == InitLine /\ [][FromLine]_vars

-----------------------------------------------------------------------------
(* SseResponse::from_line applied to the lines "retry:" + v + CRLF.        *)

RetryAlphabet == {"0", "1", "9", "-", "+", " ", "a"}

\* values around u32::MAX, with leading zeros, and with the field name inside
RetryLongValues ==
    {<<" ">> \o U32MaxDigits,
     <<" ", "4", "2", "9", "4", "9", "6", "7", "2", "9", "6">>,
     <<" ", "4", "2", "9", "4", "9", "6", "7", "2", "9", "4">>,
     <<" ", "4", "2", "9", "4", "9", "6", "7", "3", "0", "0">>,
     <<" ", "9", "9", "9", "9", "9", "9", "9", "9", "9", "9">>,
     <<" ", "1", "0", "0", "0", "0", "0", "0", "0", "0", "0", "0">>,
     <<" ", "0", "0">> \o U32MaxDigits,
     <<" ", "1", "1", "1", "1", "1", "1", "1", "1", "1">>,
     <<" ", "1">> \o RetryPrefix \o <<"2">>,
     <<" ">> \o RetryPrefix \o <<"7">>,
     <<" ">> \o RetryPrefix}

RetryValues == StringsUpTo(RetryAlphabet, MaxRetryLen) \cup RetryLongValues

\* the text v of the line "retry:" + v + CRLF
RetryValueOf(line) == SubSeq(line, Len(RetryPrefix) + 1, Len(line) - Len(CRLF))

InitRetry ==
    /\ input \in {RetryPrefix \o v \o CRLF : v \in RetryValues}
    /\ output = NoEvent
    /\ socket = <<>> /\ SubIdle /\ ConnIdle /\ StoreIdle /\ ClientIdle /\ ProxyIdle /\ ReqIdle /\ HandlerIdle /\ ReuseIdle /\ SseClientIdle

SpecRetry == InitRetry /\ [][FromLine]_vars

-----------------------------------------------------------------------------
(* HttpStatusLine::from_str applied to the lines "HTTP/1.1 <code> X" + CRLF, *)
(* and HttpResponse::status_code of a response made of the result.         *)

CodeAlphabet == {"0", "1", "2", "4", "9"}
CodeTexts == StringsUpTo(CodeAlphabet, MaxCodeLen) \ {<<>>}

\* the code field of the line "HTTP/1.1 " + code + " X" + CRLF
CodeTextOf(line) == SubSeq(line, Len(HTTP11) + 2, Len(line) - Len(SP \o <<"X">> \o CRLF))

InitStatus ==
    /\ input \in {HTTP11 \o SP \o c \o SP \o <<"X">> \o CRLF : c \in CodeTexts}
    /\ output = NoEvent
    /\ socket = <<>> /\ SubIdle /\ ConnIdle /\ StoreIdle /\ ClientIdle /\ ProxyIdle /\ ReqIdle /\ HandlerIdle /\ ReuseIdle /\ SseClientIdle

\* HttpStatusLine::from_str(line), then HttpResponse::new(status_line, ..).status_code()
StatusFromStr ==
    /\ output = NoEvent
    /\ LET status_line == HttpStatusLineFromStr(input)
       IN  output' = [kind |-> "StatusLine",
                      val |-> status_line,
                      num |-> HttpStatusCodeNum(status_line.status_code),
                      response_code |->
                          ResponseStatusCode(HttpResponseNew(status_line, HttpHeaderNew,
                                                             HttpBodyNew))]
    /\ UNCHANGED <<input, socket, subVars, connVars, storeVars, clientVars, proxyVars, reqVars, handlerVars, reuseVars, sseClientVars>>

SpecStatus == InitStatus /\ [][StatusFromStr]_vars

-----------------------------------------------------------------------------
(* SseConnection read directly, as in the tests of src/sse/connector.rs:   *)
(* the responses are set on the fake socket, then read() is called until   *)
(* the caller stops.                                                       *)

InitConn == socket = <<>> /\ SubIdle /\ ConnIdle /\ LineIdle /\ StoreIdle /\ ClientIdle /\ ProxyIdle /\ ReqIdle /\ HandlerIdle /\ ReuseIdle /\ SseClientIdle

\* FakeTcpConnection::set_response
SetResponseOn(script, max) ==
    /\ last = NoRead
    /\ Len(socket) < max
    /\ \E item \in script : socket' = Append(socket, item)

ConnSetResponse ==
    /\ SetResponseOn(ConnScript, MaxConnLines)
    /\ UNCHANGED <<subVars, connVars, lineVars, storeVars, clientVars, proxyVars, reqVars, handlerVars, reuseVars, sseClientVars>>

ErrSetResponse ==
    /\ SetResponseOn(ErrScript, MaxErrLines)
    /\ UNCHANGED <<subVars, connVars, lineVars, storeVars, clientVars, proxyVars, reqVars, handlerVars, reuseVars, sseClientVars>>

\* one call of SseConnection::read
ConnRead ==
    /\ last.kind \in {"None", "Progress"}
    /\ LET r == SseConnectionRead(socket)
       IN  /\ last' = r
           /\ taken' = SubSeq(socket, 1, r.n)
           /\ socket' = SubSeq(socket, r.n + 1, Len(socket))
    /\ UNCHANGED <<subVars, lineVars, storeVars, clientVars, proxyVars, reqVars, handlerVars, reuseVars, sseClientVars>>

NextConn == ConnSetResponse \/ ConnRead
SpecConn == InitConn /\ [][NextConn]_vars

NextErr == ErrSetResponse \/ ConnRead
SpecErr == InitConn /\ [][NextErr]_vars

\* lines of an event stream: a retry line whose value is no number, a line with no
\* colon and a line with a field name that is no SSE field
RetryBad     == Line(RetryPrefix \o <<" ", "z">> \o CRLF)
UnknownLine  == Line(<<"f", "o", "o">> \o CRLF)
UnknownField == Line(<<"f", "o", "o", ":", " ", "1">> \o CRLF)

BodyScript == {Status(200), Status(404), Status(499), Blank, DataA, Id7,
               RetryBad, UnknownLine, UnknownField, IoError}

BodySetResponse ==
    /\ SetResponseOn(BodyScript, MaxBodyLines)
    /\ UNCHANGED <<subVars, connVars, lineVars, storeVars, clientVars, proxyVars, reqVars, handlerVars, reuseVars, sseClientVars>>

NextBody == BodySetResponse \/ ConnRead
SpecBody == InitConn /\ [][NextBody]_vars

\* The number of read_line outcomes scripted on a socket that gives an error response
\* with a blank separator line.
MaxAccLines == 4

\* a header line that sets the name of HeaderA again, with blanks around name and value
HeaderA2 == Line(<<" ", "A", " ", ":", " ", " ", "2", " ">> \o CRLF)

\* the lines of an error response: headers, the blank separator, body lines, a line
\* that looks like an SSE field
AccScript == {Status(404), HeaderA, HeaderA2, Blank, BodyX, DataA, IoError}

AccSetResponse ==
    /\ SetResponseOn(AccScript, MaxAccLines)
    /\ UNCHANGED <<subVars, connVars, lineVars, storeVars, clientVars, proxyVars, reqVars, handlerVars, reuseVars, sseClientVars>>

NextAcc == AccSetResponse \/ ConnRead
SpecAcc == InitConn /\ [][NextAcc]_vars

\* The longest script of the framing lines.
MaxFrameLines == 3

\* a status line announced with another HTTP version
StatusV(version, code) ==
    Line(version \o SP \o DecStr(code) \o SP \o ReasonOf(code) \o CRLF)

\* one line for each SSE field, a valid retry value, and a field name in another case
EventE    == Line(EventPrefix \o <<" ", "e">> \o CRLF)
RetryOk   == Line(RetryPrefix \o <<" ", "5">> \o CRLF)
DataUpper == Line(<<"D", "a", "t", "a", ":", " ", "a">> \o CRLF)

SseLines == {DataA, EventE, Id7, RetryOk}

\* the event SseResponse::from_line makes of each of them
SseLineEvent(item) ==
    CASE item = DataA -> Ev("Data", <<"a">>)
      [] item = EventE -> Ev("Event", <<"e">>)
      [] item = Id7 -> Ev("Id", <<"7">>)
      [] item = RetryOk -> Ev("Retry", <<"5">>)

FrameScript == {Status(200), Status(404), StatusV(HTTP10, 200), StatusV(HTTP10, 404),
                StatusV(HTTP20, 404), Blank, HeaderA, DataUpper} \cup SseLines

FrameSetResponse ==
    /\ SetResponseOn(FrameScript, MaxFrameLines)
    /\ UNCHANGED <<subVars, connVars, lineVars, storeVars, clientVars, proxyVars, reqVars, handlerVars, reuseVars, sseClientVars>>

NextFrame == FrameSetResponse \/ ConnRead
SpecFrame == InitConn /\ [][NextFrame]_vars

-----------------------------------------------------------------------------
(* src/sse/subscriber.rs: SseSubscriber::subscribe and subscribe_mut over  *)
(* the FakeSseConnector, with a handler that records its arguments         *)
(* (MockHandler), accumulates the Data payloads (StringReturnHandler) and  *)
(* returns what the trait allows: Progress, Done or Err(e) from handle,    *)
(* Ok(accumulation) or Err(e) from result.                                 *)

HandlerErrors == {<<"E1">>, <<"E2">>}
NoReturn == [kind |-> "None", e |-> <<>>]
HandleReturns == {[kind |-> "Progress", e |-> <<>>], [kind |-> "Done", e |-> <<>>]}
                     \cup {[kind |-> "Err", e |-> e] : e \in HandlerErrors}
ResultReturns == {[kind |-> "Ok", e |-> <<>>]} \cup {[kind |-> "Err", e |-> e] : e \in HandlerErrors}

Outcome(k, v, r) == [kind |-> k, value |-> v, resp |-> r]

\* StringReturnHandler::handle: the payload of a Data event is pushed to the result
HandlerPush(result, res) == IF res.kind = "Data" THEN result \o res.val ELSE result

\* FakeSseConnector::connect: self.connected_times += 1
Connect(times) == times + 1

\* what becomes of the connect count when conn.read() has returned, mutated: a
\* connection error makes the subscriber connect again
ConnectedAfterReadRetry(times, kind) == IF kind = "ConnectionError" THEN times + 1 ELSE times

\* what becomes of the connect count when conn.read() has returned: the loop never
\* calls connect, an error of read is returned with `?`
ConnectedAfterRead(times, kind) == times

Init == socket = <<>> /\ SubIdle /\ ConnIdle /\ LineIdle /\ StoreIdle /\ ClientIdle /\ ProxyIdle /\ ReqIdle /\ HandlerIdle /\ ReuseIdle /\ SseClientIdle

\* FakeSseConnector::set_response, before the subscriber is used
SetResponse ==
    /\ pc = "idle"
    /\ Len(socket) < MaxLines
    /\ \E item \in SubScript : socket' = Append(socket, item)
    /\ UNCHANGED <<subVars, connVars, lineVars, storeVars, clientVars, proxyVars, reqVars, handlerVars, reuseVars, sseClientVars>>

\* the start of subscribe / subscribe_mut: FakeSseConnector::connect, with a new handler
Subscribe ==
    /\ pc \in {"idle", "returned"}
    /\ connected_times < MaxCalls
    /\ \E m \in {"subscribe", "subscribe_mut"} : mode' = m
    /\ calls' = calls + 1
    /\ connected_times' = Connect(connected_times)
    /\ pc' = "reading"
    /\ pending' = NoEvent /\ events' = <<>> /\ acc' = <<>>
    /\ lastRet' = NoReturn /\ resultRet' = NoReturn
    /\ resultCalls' = 0 /\ readCalls' = 0 /\ consumed' = <<>> /\ outcome' = NoOutcome
    /\ UNCHANGED <<socket, connVars, lineVars, storeVars, clientVars, proxyVars, reqVars, handlerVars, reuseVars, sseClientVars>>

\* handler.result().map_err(|e| SseSubscribeError::HandlerError(e)), returned
ReturnResult(res) ==
    /\ resultCalls' = resultCalls + 1
    /\ resultRet' = res
    /\ outcome' = IF res.kind = "Ok" THEN Outcome("Ok", acc', NoResponse)
                  ELSE Outcome("HandlerError", res.e, NoResponse)
    /\ pc' = "returned"

\* the arm for HandleProgress::Done, mutated: the loop goes on as for Progress
DoneArmGoesOn(res) ==
    /\ pc' = "reading"
    /\ UNCHANGED <<resultCalls, resultRet, outcome>>

\* the arm for HandleProgress::Done: return handler.result()
DoneArm(res) == ReturnResult(res)

\* the loop's conn.read(), with the arms for Done and for an error of read
\* (From<SseConnectionError> for SseSubscribeError)
Read ==
    /\ pc = "reading"
    /\ LET r == SseConnectionRead(socket)
       IN  /\ readCalls' = readCalls + 1
           /\ consumed' = consumed \o SubSeq(socket, 1, r.n)
           /\ socket' = SubSeq(socket, r.n + 1, Len(socket))
           /\ \/ /\ r.kind = "Progress"
                 /\ pending' = r.ev
                 /\ pc' = "handling"
                 /\ UNCHANGED <<resultCalls, resultRet, outcome, acc>>
              \/ /\ r.kind = "Done"
                 /\ UNCHANGED <<pending, acc>>
                 /\ \E res \in ResultReturns : ReturnResult(res)
              \/ /\ r.kind = "HttpError"
                 /\ outcome' = Outcome("HttpError", <<>>, r.resp)
                 /\ pc' = "returned"
                 /\ UNCHANGED <<pending, resultCalls, resultRet, acc>>
              \/ /\ r.kind = "ConnectionError"
                 /\ outcome' = Outcome("ConnectionError", <<>>, NoResponse)
                 /\ pc' = "returned"
                 /\ UNCHANGED <<pending, resultCalls, resultRet, acc>>
    /\ connected_times' = ConnectedAfterRead(connected_times, SseConnectionRead(socket).kind)
    /\ UNCHANGED <<mode, events, lastRet, calls, connVars, lineVars, storeVars, clientVars, proxyVars, reqVars, handlerVars, reuseVars, sseClientVars>>

\* the arm for HandleProgress::Err: subscribe returns HandlerError(e), subscribe_mut
\* runs todo!(), which panics
ErrArm(m, e) ==
    IF m = "subscribe" THEN Outcome("HandlerError", e, NoResponse)
    ELSE Outcome("Panic", <<>>, NoResponse)

\* handler.handle(sse_response) and the arm of what it returned
Handle ==
    /\ pc = "handling"
    /\ events' = Append(events, pending)
    /\ acc' = HandlerPush(acc, pending)
    /\ pending' = NoEvent
    /\ \E ret \in HandleReturns :
          /\ lastRet' = ret
          /\ \/ /\ ret.kind = "Progress"
                /\ pc' = "reading"
                /\ UNCHANGED <<resultCalls, resultRet, outcome>>
             \/ /\ ret.kind = "Done"
                /\ \E res \in ResultReturns : DoneArm(res)
             \/ /\ ret.kind = "Err"
                /\ outcome' = ErrArm(mode, ret.e)
                /\ pc' = "returned"
                /\ UNCHANGED <<resultCalls, resultRet>>
    /\ UNCHANGED <<socket, mode, readCalls, consumed, connected_times, calls,
                   connVars, lineVars, storeVars, clientVars, proxyVars, reqVars, handlerVars, reuseVars, sseClientVars>>

Next == SetResponse \/ Subscribe \/ Read \/ Handle
Spec == Init /\ [][Next]_vars

StoreLines == {StatusLineText(200, ReasonOf(200)), StatusLineText(404, ReasonOf(404)),
               HeaderA.text, CRLF, DataA.text, BodyX.text}

-----------------------------------------------------------------------------
(* SseResponseStore fed line by line (SseResponseStore::evaluate).         *)

InitStore == socket = <<>> /\ SubIdle /\ ConnIdle /\ LineIdle /\ StoreIdle /\ ClientIdle /\ ProxyIdle /\ ReqIdle /\ HandlerIdle /\ ReuseIdle /\ SseClientIdle

\* SseResponseStore::evaluate: self.response.take(), then from_line or add_line;
\* the ? of the add_line arm returns with the response taken out of the store
Evaluate ==
    /\ Len(history) < MaxAdds
    /\ \E line \in StoreLines :
          /\ history' = Append(history, line)
          /\ LET r == IF response.some THEN SseResponseAddLine(response, line)
                      ELSE SseResponseFromLine(line)
             IN  /\ addResult' = IF r.ok THEN "Ok" ELSE "Err"
                 /\ response' = IF r.ok THEN r.response ELSE NoSseResponse
    /\ UNCHANGED <<socket, subVars, connVars, lineVars, clientVars, proxyVars, reqVars, handlerVars, reuseVars, sseClientVars>>

SpecStore == InitStore /\ [][Evaluate]_vars

\* a body line that holds "data:" behind other text
MidData == Line(<<"x", " ">> \o DataPrefix \o <<" ", "b">> \o CRLF)

\* the lines of a response with an event stream as its body
ParseLines == {StatusLineText(200, ReasonOf(200)), HeaderA.text, CRLF, DataA.text,
               EventE.text, BodyX.text, MidData.text}

\* SseResponseStore::evaluate on the lines of an event stream
EvaluateBody ==
    /\ Len(history) < MaxAdds
    /\ \E line \in ParseLines :
          /\ history' = Append(history, line)
          /\ LET r == IF response.some THEN SseResponseAddLine(response, line)
                      ELSE SseResponseFromLine(line)
             IN  /\ addResult' = IF r.ok THEN "Ok" ELSE "Err"
                 /\ response' = IF r.ok THEN r.response ELSE NoSseResponse
    /\ UNCHANGED <<socket, subVars, connVars, lineVars, clientVars, proxyVars, reqVars, handlerVars, reuseVars, sseClientVars>>

SpecParse == InitStore /\ [][EvaluateBody]_vars

\* str::lines: the pieces between the line feeds, each without its final
\* carriage return, nothing for an empty last piece
StripCr(s) == IF s # <<>> /\ s[Len(s)] = "\r" THEN SubSeq(s, 1, Len(s) - 1) ELSE s
StrLines(s) ==
    LET pieces == Split(s, "\n")
        kept == IF pieces[Len(pieces)] = <<>> THEN SubSeq(pieces, 1, Len(pieces) - 1)
                ELSE pieces
    IN  [i \in 1..Len(kept) |-> StripCr(kept[i])]

\* SseResponseStore::evaluate on the store value: what it returns and what it
\* leaves in the store
StoreEvaluate(store, line) ==
    LET r == IF store.some THEN SseResponseAddLine(store, line)
             ELSE SseResponseFromLine(line)
    IN  IF r.ok THEN [ret |-> "Ok", response |-> r.response]
        ELSE [ret |-> "Err", response |-> NoSseResponse]

\* the loop of evaluate_lines: evaluate(line)? for each line
RECURSIVE StoreEvaluateAll(_, _)
StoreEvaluateAll(store, ls) ==
    IF ls = <<>> THEN [ret |-> "Ok", response |-> store]
    ELSE LET r == StoreEvaluate(store, Head(ls))
         IN  IF r.ret = "Err" THEN r ELSE StoreEvaluateAll(r.response, Tail(ls))

\* SseResponseStore::evaluate_lines: for a text of no line it unwraps the stored
\* response to build the InvalidLine error
StoreEvaluateLines(store, text) ==
    IF StrLines(text) = <<>>
    THEN [ret |-> IF store.some THEN "Err" ELSE "Panic", response |-> store]
    ELSE StoreEvaluateAll(store, StrLines(text))

\* what read_line puts into the line buffer: a line of the response, or nothing
\* at the end of the stream
ReadTexts == StoreLines \cup {<<>>}

\* SseResponseStore::evaluate_lines on what read_line returned
EvaluateLines ==
    /\ Len(history) < MaxAdds
    /\ addResult # "Panic"
    /\ \E text \in ReadTexts :
          /\ history' = Append(history, text)
          /\ addResult' = StoreEvaluateLines(response, text).ret
          /\ response' = StoreEvaluateLines(response, text).response
    /\ UNCHANGED <<socket, subVars, connVars, lineVars, clientVars, proxyVars, reqVars, handlerVars, reuseVars, sseClientVars>>

SpecLines == InitStore /\ [][EvaluateLines]_vars

-----------------------------------------------------------------------------
(* SseClient::handle_event (src/lib.rs): the client connects once, writes  *)
(* the request once and hands the reader to SseHandler::handle_event,      *)
(* which reads it line by line and routes every error through              *)
(* ErrorHandler::catch.                                                    *)

\* The longest script of a reader.
MaxStreamLen == 4

\* what read_line and the parser make of the next line of the reader
StreamErrors == {"ReadLineError", "InvalidResponseLineError", "HttpResponseError"}
StreamItems  == {"event", "[DONE]"} \cup StreamErrors
Streams      == UNION {[1..n -> StreamItems] : n \in 0..MaxStreamLen}

\* Handler::handle of the proxy test: "[DONE]" finishes, any other event goes on
EventHandlerHandle(event) == IF event = "[DONE]" THEN "Finished" ELSE "Continue"

\* Handler::finished
EventHandlerFinished == "Finished"

\* ErrHandler::catch: Retry while count + 1 <= 3, counting; Finished afterwards
ErrHandlerCatch(c) ==
    IF c + 1 > 3 THEN [ret |-> "Finished", count |-> c]
    ELSE [ret |-> "Retry", count |-> c + 1]

\* NonCaughtError::catch: Err(error)
NonCaughtErrorCatch(c) == [ret |-> "Err", count |-> c]

\* ErrorHandler::catch of the handler the client was built with
ErrorHandlerCatch(h, c) ==
    IF h = "ErrHandler" THEN ErrHandlerCatch(c) ELSE NonCaughtErrorCatch(c)

ClientOk(v)    == [kind |-> "Ok", e |-> v]
ClientErr(e)   == [kind |-> "Err", e |-> e]
ClientPanic(e) == [kind |-> "Panic", e |-> e]

InitClient ==
    /\ socket = <<>> /\ SubIdle /\ ConnIdle /\ LineIdle /\ StoreIdle /\ ProxyIdle /\ ReqIdle /\ HandlerIdle /\ ReuseIdle /\ SseClientIdle
    /\ ClientCounters
    /\ proxy_url \in BOOLEAN
    /\ error_handler \in {"ErrHandler", "NonCaughtError"}
    /\ net \in [connect : BOOLEAN, send : BOOLEAN]
    /\ reader \in Streams

\* handle_event, the subscriber: connect_proxy(..).map_err(..)? with a proxy,
\* build() without one, whose TcpStream::connect(..).unwrap() panics on failure
ClientConnect ==
    /\ cpc = "idle"
    /\ IF net.connect
       THEN /\ connects' = connects + 1
            /\ cpc' = "connected"
            /\ UNCHANGED clientRet
       ELSE /\ cpc' = "returned"
            /\ clientRet' = IF proxy_url THEN ClientErr("SubscriberConstructionError")
                            ELSE ClientPanic("TcpStreamConnectionError")
            /\ UNCHANGED connects
    /\ UNCHANGED <<proxy_url, error_handler, net, reader, sends, reads, catches, retries,
                   count, handled, caught>>
    /\ UNCHANGED <<socket, subVars, connVars, lineVars, storeVars, proxyVars, reqVars, handlerVars, reuseVars, sseClientVars>>

\* handle_event, subscriber.subscribe_stream().map_err(SseSubscriberError)?
ClientSubscribeStream ==
    /\ cpc = "connected"
    /\ IF net.send
       THEN /\ sends' = sends + 1
            /\ cpc' = "reading"
            /\ UNCHANGED clientRet
       ELSE /\ cpc' = "returned"
            /\ clientRet' = ClientErr("SseSubscriberError")
            /\ UNCHANGED sends
    /\ UNCHANGED <<proxy_url, error_handler, net, reader, connects, reads, catches, retries,
                   count, handled, caught>>
    /\ UNCHANGED <<socket, subVars, connVars, lineVars, storeVars, proxyVars, reqVars, handlerVars, reuseVars, sseClientVars>>

\* where return_or_retry goes on after catch returned ret: Retry re-enters the
\* read function, which holds the reader handle_event was given
ReturnOrRetry(ret) == IF ret = "Retry" THEN "reading" ELSE "returned"

\* SseHandler::handle_event(reader), one line: an event goes to
\* EventHandler::handle, the end of the stream to EventHandler::finished,
\* an error to ErrorHandler::catch
HandlerRead ==
    /\ cpc = "reading"
    /\ IF reader = <<>>
       THEN /\ cpc' = "returned"
            /\ clientRet' = ClientOk(EventHandlerFinished)
            /\ UNCHANGED <<reader, reads, handled, caught>>
       ELSE /\ reader' = Tail(reader)
            /\ reads' = reads + 1
            /\ IF Head(reader) \in StreamErrors
               THEN /\ caught' = Head(reader)
                    /\ cpc' = "catching"
                    /\ UNCHANGED <<handled, clientRet>>
               ELSE /\ handled' = handled + 1
                    /\ caught' = "None"
                    /\ IF EventHandlerHandle(Head(reader)) = "Finished"
                       THEN cpc' = "returned" /\ clientRet' = ClientOk("Finished")
                       ELSE cpc' = "reading" /\ UNCHANGED clientRet
    /\ UNCHANGED <<proxy_url, error_handler, net, connects, sends, catches, retries, count>>
    /\ UNCHANGED <<socket, subVars, connVars, lineVars, storeVars, proxyVars, reqVars, handlerVars, reuseVars, sseClientVars>>

\* SseHandler::handle_event, the error arm: ErrorHandler::catch(error), then
\* Finished(v) is returned, Err is returned, Retry restarts the read loop
HandlerCatch ==
    /\ cpc = "catching"
    /\ LET r == ErrorHandlerCatch(error_handler, count)
       IN  /\ catches' = catches + 1
           /\ count' = r.count
           /\ retries' = IF r.ret = "Retry" THEN retries + 1 ELSE retries
           /\ cpc' = ReturnOrRetry(r.ret)
           /\ clientRet' = CASE r.ret = "Finished" -> ClientOk("Finished")
                             [] r.ret = "Err" -> ClientErr(caught)
                             [] OTHER -> clientRet
    /\ caught' = "None"
    /\ UNCHANGED <<proxy_url, error_handler, net, reader, connects, sends, reads, handled>>
    /\ UNCHANGED <<socket, subVars, connVars, lineVars, storeVars, proxyVars, reqVars, handlerVars, reuseVars, sseClientVars>>

NextClient == ClientConnect \/ ClientSubscribeStream \/ HandlerRead \/ HandlerCatch

SpecClient == InitClient /\ [][NextClient]_vars

\* the call is one thread of control: it takes its next step until it returns
FairSpecClient == SpecClient /\ WF_vars(NextClient)

-----------------------------------------------------------------------------
(* src/url.rs: Url::from_str applied to URL texts put together from a      *)
(* scheme, a host, an optional port and an optional path.                  *)

\* str::split(p) for a pattern of several characters
RECURSIVE SplitStr(_, _)
SplitStr(s, p) ==
    LET i == FindStr(s, p, 1)
    IN  IF i = 0 THEN <<s>>
        ELSE <<SubSeq(s, 1, i - 1)>> \o SplitStr(SubSeq(s, i + Len(p), Len(s)), p)

\* str::parse::<u16>
ParseU16(s) ==
    LET d == ParseU32(s)
    IN  IF d = None THEN [ok |-> FALSE, val |-> 0]
        ELSE IF Len(d) <= 5 /\ DecVal(d) <= 65535 THEN [ok |-> TRUE, val |-> DecVal(d)]
        ELSE [ok |-> FALSE, val |-> 0]

\* Schema::from_str, Schema::port
SchemaFromStr(s) ==
    IF s = <<"h", "t", "t", "p">> THEN "Http"
    ELSE IF s = <<"h", "t", "t", "p", "s">> THEN "Https"
    ELSE "InvalidSchema"
SchemaPort(schema) == IF schema = "Http" THEN 80 ELSE 443

\* the fold of Url::from_str over the pieces after the host: "/" + piece, each
RECURSIVE UrlPathFold(_)
UrlPathFold(pieces) ==
    IF pieces = <<>> THEN <<>> ELSE <<"/">> \o Head(pieces) \o UrlPathFold(Tail(pieces))

UrlErr(e) == [ok |-> FALSE, scheme |-> e, host |-> <<>>, port |-> 0, path |-> <<>>]

\* Url::from_str
UrlFromStr(s) ==
    LET split == SplitStr(s, <<":", "/", "/">>)
        schema == SchemaFromStr(split[1])
    IN  IF schema = "InvalidSchema" THEN UrlErr("InvalidSchema")
        ELSE IF Len(split) < 2 THEN UrlErr("InvalidString")
        ELSE LET host_and_maybe_path_and_maybe_port == Split(split[2], ":")
                 host_and_maybe_path == Split(host_and_maybe_path_and_maybe_port[1], "/")
                 port == IF Len(host_and_maybe_path_and_maybe_port) >= 2
                            /\ ParseU16(host_and_maybe_path_and_maybe_port[2]).ok
                         THEN ParseU16(host_and_maybe_path_and_maybe_port[2]).val
                         ELSE SchemaPort(schema)
                 path == UrlPathFold(Tail(host_and_maybe_path))
             IN  [ok |-> TRUE, scheme |-> schema, host |-> host_and_maybe_path[1],
                  port |-> port, path |-> IF path = <<>> THEN <<"/">> ELSE path]

\* the parts the URL texts are put together from; an absent port or path is <<>>
UrlSchemes == {<<"h", "t", "t", "p">>, <<"h", "t", "t", "p", "s">>, <<"f", "t", "p">>}
UrlHosts   == {<<"h">>, <<"a", ".", "b">>}
UrlPorts   == {<<>>, <<"8", "1">>, <<"1", "0", "0", "0", "0">>,
               <<"6", "5", "5", "3", "5">>, <<"6", "5", "5", "3", "6">>}
UrlPaths   == {<<>>, <<"/">>, <<"/", "t">>, <<"/", "a", "/", "b">>}

\* "scheme://host:port/path", the usual form, and "scheme://host/path:port", the
\* form of the test of url.rs
UrlText(form, scheme, host, port, path) ==
    LET colon_port == IF port = <<>> THEN <<>> ELSE <<":">> \o port
    IN  scheme \o <<":", "/", "/">> \o host
            \o (IF form = "usual" THEN colon_port \o path ELSE path \o colon_port)

UrlInputs ==
    {[form |-> f, scheme |-> sc, host |-> h, port |-> po, path |-> pa,
      text |-> UrlText(f, sc, h, po, pa)] :
        f \in {"usual", "tested"}, sc \in UrlSchemes, h \in UrlHosts,
        po \in UrlPorts, pa \in UrlPaths}

NoUrl == [ok |-> FALSE, scheme |-> "None", host |-> <<>>, port |-> 0, path |-> <<>>]

InitUrl ==
    /\ input \in UrlInputs
    /\ output = NoUrl
    /\ socket = <<>> /\ SubIdle /\ ConnIdle /\ StoreIdle /\ ClientIdle /\ ProxyIdle /\ ReqIdle /\ HandlerIdle /\ ReuseIdle /\ SseClientIdle

UrlParse ==
    /\ output = NoUrl
    /\ output' = UrlFromStr(input.text)
    /\ UNCHANGED <<input, socket, subVars, connVars, storeVars, clientVars, proxyVars, reqVars, handlerVars, reuseVars, sseClientVars>>

SpecUrl == InitUrl /\ [][UrlParse]_vars

-----------------------------------------------------------------------------
(* The CONNECT exchange with a proxy: ClientConnection::proxy_connection   *)
(* (src/sse/connector.rs) and SubscriberBuilder::connect_proxy             *)
(* (src/subscriber.rs) write the CONNECT request to the socket, read it    *)
(* into a buffer until a response holds "Established", and only the value  *)
(* they return on success gives access to the TLS side of the socket.      *)

\* The most reads of the proxy socket that return bytes or fail.
MaxProxyReads == 3

\* the literal both loops look for
Established == <<"E", "s", "t", "a", "b", "l", "i", "s", "h", "e", "d">>

\* what one read of the proxy socket can bring: the literal whole, in two halves,
\* a refusal, and two pieces that overlap to the literal in a buffer
ProxyChunks ==
    { <<"2", "0", "0", " ">> \o Established,
      <<"E", "s", "t", "a", "b">>, <<"l", "i", "s", "h", "e", "d">>,
      <<"4", "0", "3">>,
      <<"x", "x", "x", "a", "b", "l", "i", "s", "h", "e", "d">>, <<"E", "s", "t">> }

\* the outcomes of the reads before the proxy closes: bytes or an io::Error
ProxyReads   == {[kind |-> "Ok", bytes |-> c] : c \in ProxyChunks} \cup {IoError}
ProxyScripts == UNION {[1..n -> ProxyReads] : n \in 0..MaxProxyReads}

\* the bytes of the reads that returned bytes, in order
RECURSIVE ProxyBytes(_)
ProxyBytes(rs) ==
    IF rs = <<>> THEN <<>>
    ELSE (IF Head(rs).kind = "Ok" THEN Head(rs).bytes ELSE <<>>) \o ProxyBytes(Tail(rs))

\* socket.read(&mut buf): the bytes read overwrite the buffer from its start
BufAfterRead(b, bytes) == bytes \o SubSeq(b, Len(bytes) + 1, Len(b))

\* the text the loop looks into after a read: &buf[..size] in proxy_connection,
\* buf.clone() in connect_proxy
ProxyResponse(impl, b, bytes) ==
    IF impl = "ClientConnection" THEN bytes ELSE BufAfterRead(b, bytes)

\* str::contains("Established")
ContainsEstablished(s) == FindStr(s, Established, 1) # 0

InitProxy ==
    /\ socket = <<>> /\ SubIdle /\ ConnIdle /\ LineIdle /\ StoreIdle /\ ClientIdle /\ ReqIdle
    /\ HandlerIdle /\ ReuseIdle /\ SseClientIdle
    /\ proxy_impl \in {"ClientConnection", "SubscriberBuilder"}
    /\ ppc = "idle" /\ proxyRet = "None" /\ buf = <<>>
    /\ tcp_stream \in [writable : BOOLEAN, written : {<<>>}, read : {<<>>},
                       incoming : ProxyScripts]

\* what the exchange returns on an io::Error: proxy_connection maps a failed
\* write to ConnectError and leaves the loop on a failed read, connect_proxy
\* unwraps both
ProxyIoFailure(impl, op) ==
    IF impl = "SubscriberBuilder" THEN "Panic"
    ELSE IF op = "write" THEN "ConnectError" ELSE "ProxyConnectionError"

\* tcp_stream.write_all(req.bytes()) of the CONNECT request
ProxyWriteConnect ==
    /\ ppc = "idle"
    /\ IF tcp_stream.writable
       THEN /\ tcp_stream' = [tcp_stream EXCEPT !.written = <<"CONNECT">>]
            /\ ppc' = "reading"
            /\ UNCHANGED proxyRet
       ELSE /\ ppc' = "returned"
            /\ proxyRet' = ProxyIoFailure(proxy_impl, "write")
            /\ UNCHANGED tcp_stream
    /\ UNCHANGED <<proxy_impl, buf>>
    /\ UNCHANGED <<socket, subVars, connVars, lineVars, storeVars, clientVars, reqVars, handlerVars, reuseVars, sseClientVars>>

\* one turn of the read loop: size 0 ends it with the proxy error, bytes that
\* hold the literal end it with the connection
ProxyRead ==
    /\ ppc = "reading"
    /\ IF tcp_stream.incoming = <<>>
       THEN /\ ppc' = "returned"
            /\ proxyRet' = "ProxyConnectionError"
            /\ UNCHANGED <<tcp_stream, buf>>
       ELSE LET r == Head(tcp_stream.incoming)
            IN  /\ tcp_stream' = [tcp_stream EXCEPT !.incoming = Tail(@),
                                                    !.read = Append(@, r)]
                /\ IF r.kind # "Ok"
                   THEN /\ ppc' = "returned"
                        /\ proxyRet' = ProxyIoFailure(proxy_impl, "read")
                        /\ UNCHANGED buf
                   ELSE /\ buf' = BufAfterRead(buf, r.bytes)
                        /\ IF ContainsEstablished(ProxyResponse(proxy_impl, buf, r.bytes))
                           THEN ppc' = "returned" /\ proxyRet' = "Ok"
                           ELSE UNCHANGED <<ppc, proxyRet>>
    /\ UNCHANGED proxy_impl
    /\ UNCHANGED <<socket, subVars, connVars, lineVars, storeVars, clientVars, reqVars, handlerVars, reuseVars, sseClientVars>>

\* SseTlsConnector::connect / SseSubscriber::subscribe_stream on the value the
\* exchange returned: the handshake and the request go out on the same socket
ProxyTlsWrite ==
    /\ ppc = "returned" /\ proxyRet = "Ok"
    /\ tcp_stream.written = <<"CONNECT">>
    /\ tcp_stream' = [tcp_stream EXCEPT !.written = Append(@, "TLS")]
    /\ UNCHANGED <<proxy_impl, buf, ppc, proxyRet>>
    /\ UNCHANGED <<socket, subVars, connVars, lineVars, storeVars, clientVars, reqVars, handlerVars, reuseVars, sseClientVars>>

NextProxy == ProxyWriteConnect \/ ProxyRead \/ ProxyTlsWrite
SpecProxy == InitProxy /\ [][NextProxy]_vars

-----------------------------------------------------------------------------
(* src/http/request.rs: a RequestBuilder is configured by header, json and *)
(* bearer_auth calls and serialized by build.                              *)

\* The most header / json / bearer_auth calls made on one builder.
MaxSettings == 3

\* the characters of the header names in the order of their bytes
ByteOrder == <<"-", "A", "C", "L", "T", "X", "a", "b", "c", "e", "g", "h", "i", "n",
               "o", "p", "r", "t", "u", "y", "z">>
ByteOf(c) == CHOOSE i \in 1..Len(ByteOrder) : ByteOrder[i] = c

\* Ord for String: the order of the bytes, a proper prefix first
RECURSIVE StrLess(_, _)
StrLess(a, b) ==
    IF b = <<>> THEN FALSE
    ELSE IF a = <<>> THEN TRUE
    ELSE IF Head(a) = Head(b) THEN StrLess(Tail(a), Tail(b))
    ELSE ByteOf(Head(a)) < ByteOf(Head(b))

\* a map whose insert keeps the value a key already has
BTreeInsertKeepFirst(m, key, value) ==
    [k \in DOMAIN m \cup {key} |-> IF k \in DOMAIN m THEN m[k] ELSE value]

\* BTreeMap::insert and BTreeMap::iter (the keys, ascending)
BTreeInsert(m, key, value) ==
    [k \in DOMAIN m \cup {key} |-> IF k = key THEN value ELSE m[k]]
RECURSIVE BTreeKeys(_)
BTreeKeys(ks) ==
    IF ks = {} THEN <<>>
    ELSE LET least == CHOOSE x \in ks : \A y \in ks : x = y \/ StrLess(x, y)
         IN  <<least>> \o BTreeKeys(ks \ {least})
BTreeEmpty == [k \in {} |-> <<>>]

\* the character U+00E9, two bytes in UTF-8
EAcute == "U+00E9"

\* str::len: the number of bytes of the UTF-8 text
RECURSIVE StrLen(_)
StrLen(s) == IF s = <<>> THEN 0 ELSE (IF Head(s) = EAcute THEN 2 ELSE 1) + StrLen(Tail(s))

\* serde_json::to_string of a vector of numbers and of a string
RECURSIVE JsonItems(_)
JsonItems(v) ==
    IF v = <<>> THEN <<>>
    ELSE DecStr(Head(v)) \o (IF Len(v) > 1 THEN <<",">> ELSE <<>>) \o JsonItems(Tail(v))
ToJson(j) ==
    IF j.kind = "vec" THEN <<"[">> \o JsonItems(j.nums) \o <<"]">>
    ELSE <<"\"">> \o j.text \o <<"\"">>

ContentType     == <<"C", "o", "n", "t", "e", "n", "t", "-", "T", "y", "p", "e">>
ContentLength   == <<"C", "o", "n", "t", "e", "n", "t", "-", "L", "e", "n", "g", "t", "h">>
Authorization   == <<"A", "u", "t", "h", "o", "r", "i", "z", "a", "t", "i", "o", "n">>
ApplicationJson == <<"a", "p", "p", "l", "i", "c", "a", "t", "i", "o", "n", "/", "j", "s", "o", "n">>

\* RequestBuilder::header, ::json, ::bearer_auth, ::post
BuilderHeader(b, key, value) == [b EXCEPT !.headers = BTreeInsert(@, key, value)]
BuilderJson(b, j) ==
    LET new == [BuilderHeader(b, ContentType, ApplicationJson) EXCEPT !.body = ToJson(j)]
    IN  BuilderHeader(new, ContentLength, DecStr(StrLen(new.body)))
BuilderBearerAuth(b, token) == BuilderHeader(b, Authorization, <<"B", "e", "a", "r", "e", "r", " ">> \o token)

\* RequestBuilder::header_string
RECURSIVE HeaderLines(_, _)
HeaderLines(m, keys) ==
    IF keys = <<>> THEN <<>>
    ELSE Head(keys) \o <<":", " ">> \o m[Head(keys)] \o CRLF \o HeaderLines(m, Tail(keys))
HeaderString(b) == HeaderLines(b.headers, BTreeKeys(DOMAIN b.headers))

\* RequestBuilder::to_request, mutated: the CONNECT request carries the configured
\* headers as a POST request does
ToRequestConnectWithHeaders(b) ==
    LET target == b.url.host \o <<":">> \o DecStr(b.url.port)
    IN  IF b.method = "Connect"
        THEN <<"C", "O", "N", "N", "E", "C", "T">> \o SP \o target \o SP \o HTTP11 \o CRLF
                 \o <<"H", "o", "s", "t", ":", " ">> \o target \o CRLF \o HeaderString(b) \o CRLF
        ELSE (IF b.method = "Get" THEN <<"G", "E", "T">> ELSE <<"P", "O", "S", "T">>)
                 \o SP \o b.url.path \o SP \o HTTP11 \o CRLF \o CRLF

\* RequestBuilder::to_request
ToRequest(b) ==
    LET host == b.url.host
        http11 == SP \o HTTP11 \o CRLF
    IN  IF b.method = "Get"
        THEN <<"G", "E", "T">> \o SP \o b.url.path \o http11 \o <<"H", "o", "s", "t", ":", " ">> \o host \o CRLF
                 \o <<"C", "o", "n", "n", "e", "c", "t", "i", "o", "n", ":", " ", "c", "l", "o", "s", "e">> \o CRLF \o CRLF
        ELSE IF b.method = "Post"
        THEN <<"P", "O", "S", "T">> \o SP \o b.url.path \o http11 \o <<"H", "o", "s", "t", ":", " ">> \o host \o CRLF
                 \o <<"A", "c", "c", "e", "p", "t", ":", " ", "t", "e", "x", "t", "/", "e", "v", "e", "n", "t", "-", "s", "t", "r", "e", "a", "m">> \o CRLF \o <<"C", "o", "n", "n", "e", "c", "t", "i", "o", "n", ":", " ", "k", "e", "e", "p", "-", "a", "l", "i", "v", "e">> \o CRLF
                 \o HeaderString(b) \o CRLF \o b.body
        ELSE <<"C", "O", "N", "N", "E", "C", "T">> \o SP \o host \o <<":">> \o DecStr(b.url.port) \o http11
                 \o <<"H", "o", "s", "t", ":", " ">> \o host \o <<":">> \o DecStr(b.url.port) \o CRLF \o CRLF

\* the arguments of the calls
RequestUrls  == {<<"h", "t", "t", "p", "s", ":", "/", "/", "l", "o", "c", "a", "l", "h", "o", "s", "t", "/", "t", "e", "s", "t">>, <<"h", "t", "t", "p", ":", "/", "/", "h">>}
HeaderKeys   == {ContentType, <<"X", "-", "A">>, <<"a">>}
HeaderValues == {<<"1">>, <<"t", "e", "x", "t">>}
JsonValues   == {[kind |-> "vec", nums |-> <<1, 2, 3>>, text |-> <<>>],
                 [kind |-> "str", nums |-> <<>>, text |-> <<EAcute, "t", EAcute>>]}
NoJson       == [kind |-> "none", nums |-> <<>>, text |-> <<>>]
Tokens       == {<<"t", "o", "k", "e", "n">>}

\* RequestBuilder::new(url)
InitRequest ==
    /\ socket = <<>> /\ SubIdle /\ ConnIdle /\ LineIdle /\ StoreIdle /\ ClientIdle /\ ProxyIdle
    /\ HandlerIdle /\ ReuseIdle /\ SseClientIdle
    /\ \E u \in RequestUrls :
           request_builder = [url |-> UrlFromStr(u), method |-> "Get",
                              headers |-> BTreeEmpty, body |-> <<>>]
    /\ configured = <<>> /\ request = <<>>

Configure(b, call) ==
    /\ request = <<>> /\ Len(configured) < MaxSettings
    /\ request_builder' = b
    /\ configured' = Append(configured, call)
    /\ UNCHANGED request
    /\ UNCHANGED <<socket, subVars, connVars, lineVars, storeVars, clientVars, proxyVars, handlerVars, reuseVars, sseClientVars>>

BuilderPostCall ==
    /\ request = <<>> /\ request_builder.method = "Get"
    /\ request_builder' = [request_builder EXCEPT !.method = "Post"]
    /\ UNCHANGED <<configured, request>>
    /\ UNCHANGED <<socket, subVars, connVars, lineVars, storeVars, clientVars, proxyVars, handlerVars, reuseVars, sseClientVars>>

BuilderHeaderCall ==
    \E k \in HeaderKeys, v \in HeaderValues :
        Configure(BuilderHeader(request_builder, k, v), [op |-> "header", key |-> k, value |-> v, json |-> NoJson])

BuilderJsonCall ==
    \E j \in JsonValues :
        Configure(BuilderJson(request_builder, j), [op |-> "json", key |-> <<>>, value |-> <<>>, json |-> j])

BuilderBearerAuthCall ==
    \E t \in Tokens :
        Configure(BuilderBearerAuth(request_builder, t),
                  [op |-> "bearer_auth", key |-> <<>>, value |-> t, json |-> NoJson])

\* RequestBuilder::build, and ::connect_request, which builds with the method
\* CONNECT and no body
BuilderBuild ==
    /\ request = <<>>
    /\ \E m \in {request_builder.method, "Connect"} :
           request' = ToRequest([request_builder EXCEPT !.method = m,
                                   !.body = IF m = "Connect" THEN <<>> ELSE @])
    /\ UNCHANGED <<request_builder, configured>>
    /\ UNCHANGED <<socket, subVars, connVars, lineVars, storeVars, clientVars, proxyVars, handlerVars, reuseVars, sseClientVars>>

NextRequest ==
    \/ BuilderPostCall \/ BuilderHeaderCall \/ BuilderJsonCall \/ BuilderBearerAuthCall
    \/ BuilderBuild
SpecRequest == InitRequest /\ [][NextRequest]_vars

-----------------------------------------------------------------------------
(* src/client.rs: SseClient keeps its RequestBuilder in an Option, takes it *)
(* out for every operation and puts the new builder back; send, send_mut,   *)
(* send_fn and send_mut_fn build the request, put back a new builder for    *)
(* the URL of the request and give the request to the subscriber.           *)

\* The most operations called on one client.
MaxClientOps == 4

\* RequestBuilder::new(url)
RequestBuilderNew(url) == [url |-> url, method |-> "Get", headers |-> BTreeEmpty, body |-> <<>>]

\* RequestBuilder::build: the Request with its value and its url
RequestBuilderBuild(b) == [value |-> ToRequest(b), url |-> b.url]

\* the arguments of header, json and bearer_auth
ClientHeaderKey   == <<"X", "-", "A">>
ClientHeaderValue == <<"1">>
ClientJson        == [kind |-> "vec", nums |-> <<1, 2, 3>>, text |-> <<>>]
ClientToken       == <<"t", "o", "k", "e", "n">>

SendOps   == {"send", "send_mut", "send_fn", "send_mut_fn"}
ConfigOps == {"get", "post", "header", "json", "bearer_auth"}

\* what get, post, header, json and bearer_auth make of the builder they took
ClientConfigure(op, b) ==
    CASE op = "get" -> [b EXCEPT !.method = "Get"]
      [] op = "post" -> [b EXCEPT !.method = "Post"]
      [] op = "header" -> BuilderHeader(b, ClientHeaderKey, ClientHeaderValue)
      [] op = "json" -> BuilderJson(b, ClientJson)
      [] op = "bearer_auth" -> BuilderBearerAuth(b, ClientToken)

\* self.req_builder after a send* call, mutated: the builder that was built is put back
ReqBuilderAfterSendKept(b) == <<b>>

\* self.req_builder after a send* call: Some(RequestBuilder::new(req.url()))
ReqBuilderAfterSend(b) == <<RequestBuilderNew(RequestBuilderBuild(b).url)>>

\* SseClientBuilder::new(url), post / bearer_auth, build
InitSseClient ==
    /\ socket = <<>> /\ SubIdle /\ ConnIdle /\ LineIdle /\ StoreIdle /\ ClientIdle /\ ProxyIdle
    /\ ReqIdle /\ HandlerIdle /\ ReuseIdle
    /\ \E u \in RequestUrls :
           req_builder \in {<<RequestBuilderNew(UrlFromStr(u))>>,
                            <<BuilderBearerAuth([RequestBuilderNew(UrlFromStr(u)) EXCEPT !.method = "Post"],
                                                ClientToken)>>}
    /\ client_ops = <<>> /\ subscribed = <<>>

\* self.req_builder.take().unwrap() panics on None: nothing more is called
ClientCallable ==
    /\ Len(client_ops) < MaxClientOps
    /\ \A i \in 1..Len(client_ops) : client_ops[i] # "panic"

ClientPanics ==
    /\ req_builder' = <<>>
    /\ client_ops' = Append(client_ops, "panic")
    /\ UNCHANGED subscribed

\* SseClient::get, ::post, ::header, ::json, ::bearer_auth
SseClientConfigure ==
    /\ ClientCallable
    /\ \E op \in ConfigOps :
           IF req_builder = <<>> THEN ClientPanics
           ELSE /\ req_builder' = <<ClientConfigure(op, req_builder[1])>>
                /\ client_ops' = Append(client_ops, op)
                /\ UNCHANGED subscribed
    /\ UNCHANGED <<socket, subVars, connVars, lineVars, storeVars, clientVars, proxyVars, reqVars, handlerVars, reuseVars>>

\* SseClient::send, ::send_mut, ::send_fn, ::send_mut_fn, up to the call of the subscriber
SseClientSend ==
    /\ ClientCallable
    /\ \E op \in SendOps :
           IF req_builder = <<>> THEN ClientPanics
           ELSE /\ req_builder' = ReqBuilderAfterSend(req_builder[1])
                /\ subscribed' = Append(subscribed, RequestBuilderBuild(req_builder[1]))
                /\ client_ops' = Append(client_ops, op)
    /\ UNCHANGED <<socket, subVars, connVars, lineVars, storeVars, clientVars, proxyVars, reqVars, handlerVars, reuseVars>>

NextSseClient == SseClientConfigure \/ SseClientSend
SpecSseClient == InitSseClient /\ [][NextSseClient]_vars

-----------------------------------------------------------------------------
(* src/sse/subscriber.rs over one FakeSseConnector for several calls:       *)
(* connect gives every call the same SseConnection, set_response pushes the *)
(* lines of a later response behind the lines that are still unread.        *)

\* The most unread lines on the connection at one time.
MaxReuseLines == 2
\* The number of subscribe calls made on the one connection.
MaxReuseCalls == 2

ReuseScript == {Status(200), Status(404), DataA, Id7}

\* the connection connect returns, mutated: every call after the first has a new
\* connection, the unread lines dropped
ConnectionOfConnectNew(conn, times) == IF times > 0 THEN <<>> ELSE conn

\* the connection connect returns, times calls of connect before: Ok(&mut self.connection)
ConnectionOfConnect(conn, times) == conn

InitReuse ==
    /\ socket = <<>> /\ SubIdle /\ ConnIdle /\ LineIdle /\ StoreIdle /\ ClientIdle /\ ProxyIdle
    /\ ReqIdle /\ HandlerIdle /\ SseClientIdle
    /\ leftover = <<>> /\ fresh = 0

\* FakeSseConnector::set_response, before a call or between two calls
ReuseSetResponse ==
    /\ pc \in {"idle", "returned"}
    /\ Len(socket) < MaxReuseLines
    /\ \E item \in ReuseScript : socket' = Append(socket, item)
    /\ fresh' = fresh + 1
    /\ UNCHANGED leftover
    /\ UNCHANGED <<subVars, connVars, lineVars, storeVars, clientVars, proxyVars, reqVars, handlerVars, sseClientVars>>

\* the start of subscribe / subscribe_mut: FakeSseConnector::connect, with a new handler
ReuseSubscribe ==
    /\ pc \in {"idle", "returned"}
    /\ connected_times < MaxReuseCalls
    /\ \E m \in {"subscribe", "subscribe_mut"} : mode' = m
    /\ calls' = calls + 1
    /\ connected_times' = Connect(connected_times)
    /\ socket' = ConnectionOfConnect(socket, connected_times)
    /\ leftover' = SubSeq(socket, 1, Len(socket) - fresh)
    /\ fresh' = 0
    /\ pc' = "reading"
    /\ pending' = NoEvent /\ events' = <<>> /\ acc' = <<>>
    /\ lastRet' = NoReturn /\ resultRet' = NoReturn
    /\ resultCalls' = 0 /\ readCalls' = 0 /\ consumed' = <<>> /\ outcome' = NoOutcome
    /\ UNCHANGED <<connVars, lineVars, storeVars, clientVars, proxyVars, reqVars, handlerVars, sseClientVars>>

NextReuse == ReuseSetResponse \/ ReuseSubscribe \/ Read \/ Handle
SpecReuse == InitReuse /\ [][NextReuse]_vars

-----------------------------------------------------------------------------
(* src/event_handler.rs: SseHandler::handle_subscribe_event reads the      *)
(* reader of subscribe_stream line by line into one String, gives the      *)
(* String to SseResponseStore::evaluate_lines and hands the new event of   *)
(* the response to EventHandler::handle.                                   *)

\* The longest script of the reader.
MaxHandleLines == 4

DataB == Line(DataPrefix \o <<" ", "b">> \o CRLF)

\* what read_line can give before the end of the stream
HandleScript  == {Status(200), Status(404), HeaderA, Blank, DataA, DataB, IoError}
HandleStreams == UNION {[1..n -> HandleScript] : n \in 0..MaxHandleLines}

\* the error handlers: none set, or one whose catch returns Ok or Err
HandlerSettings ==
    [request : {"None", "Ok"}, response : {"None", "Ok", "Err"}, send : BOOLEAN]

\* SseResponse::is_error
SseResponseIsError(r) == r.start_line.status_code >= 400

InitHandle ==
    /\ socket = <<>> /\ SubIdle /\ ConnIdle /\ LineIdle /\ StoreIdle /\ ClientIdle
    /\ ProxyIdle /\ ReqIdle /\ ReuseIdle /\ SseClientIdle
    /\ stream \in HandleStreams
    /\ handlers \in HandlerSettings
    /\ nread = 0 /\ lineBuf = <<>> /\ read_len = 1
    /\ response_store = NoSseResponse /\ handled_events = <<>> /\ catch_calls = <<>>
    /\ hpc = "idle" /\ handlerRet = "None"

\* catch_request_error, catch_io_error, catch_invalid_response_line_error and
\* catch_response_error: the handler's catch when one is set, whose Err is mapped
\* to user_err, and Err(non_err) when none is set
CatchWith(fn, handler, user_err, non_err) ==
    /\ catch_calls' = Append(catch_calls, [fn |-> fn, handler |-> handler # "None"])
    /\ handlerRet' = IF handler = "None" THEN non_err
                     ELSE IF handler = "Ok" THEN "Ok" ELSE user_err
    /\ hpc' = "returned"

\* self.subscriber.subscribe_stream(&request)
HandleSubscribeStream ==
    /\ hpc = "idle"
    /\ IF handlers.send
       THEN hpc' = "reading" /\ UNCHANGED <<catch_calls, handlerRet>>
       ELSE CatchWith("catch_request_error", handlers.request,
                      "SubscribeRequestUserError", "SubscribeRequestError")
    /\ UNCHANGED <<stream, nread, lineBuf, read_len, response_store, handlers,
                   handled_events>>
    /\ UNCHANGED <<socket, subVars, connVars, lineVars, storeVars, clientVars, proxyVars,
                   reqVars, reuseVars, sseClientVars>>

\* one turn of the while loop: read_line appends to the String, evaluate_lines
\* gets the whole String; the String is cleared only when the response has no
\* new event
HandleReadLine ==
    /\ hpc = "reading"
    /\ LET eof == nread >= Len(stream)
           item == IF eof THEN Line(<<>>) ELSE stream[nread + 1]
       IN
       /\ nread' = IF eof THEN nread ELSE nread + 1
       /\ IF item.kind = "err"
          THEN /\ CatchWith("catch_io_error", handlers.response,
                            "ReadLineError", "SubscribeResponseError")
               /\ UNCHANGED <<lineBuf, read_len, response_store, handled_events>>
          ELSE LET text == lineBuf \o item.text
                   len == Len(item.text)
                   r == StoreEvaluateLines(response_store, text)
               IN
               /\ read_len' = len
               /\ response_store' = r.response
               /\ CASE r.ret = "Panic" ->
                         /\ hpc' = "returned" /\ handlerRet' = "Panic"
                         /\ lineBuf' = text
                         /\ UNCHANGED <<handled_events, catch_calls>>
                    [] r.ret = "Err" ->
                         /\ CatchWith("catch_invalid_response_line_error",
                                      handlers.response, "InvalidResponseLineError",
                                      "InvalidResponseLineError")
                         /\ lineBuf' = text
                         /\ UNCHANGED handled_events
                    [] r.ret = "Ok" /\ (SseResponseIsError(r.response) \/ len < 5) ->
                         /\ CatchWith("catch_response_error", handlers.response,
                                      "SubscribeResponseUserError",
                                      "SubscribeResponseError")
                         /\ lineBuf' = text
                         /\ UNCHANGED handled_events
                    [] OTHER ->
                         IF SseResponseNewEvent(r.response) = None
                         THEN /\ lineBuf' = <<>>
                              /\ UNCHANGED <<handled_events, catch_calls, hpc, handlerRet>>
                         ELSE /\ handled_events' =
                                     Append(handled_events, SseResponseNewEvent(r.response))
                              /\ lineBuf' = text
                              /\ UNCHANGED catch_calls
                              /\ \E finished \in {"continue", "finish", "err"} :
                                    CASE finished = "finish" ->
                                             hpc' = "returned" /\ handlerRet' = "Ok"
                                      [] finished = "err" ->
                                             /\ hpc' = "returned"
                                             /\ handlerRet' = "SubscribeRequestUserError"
                                      [] OTHER -> UNCHANGED <<hpc, handlerRet>>
    /\ UNCHANGED <<stream, handlers>>
    /\ UNCHANGED <<socket, subVars, connVars, lineVars, storeVars, clientVars, proxyVars,
                   reqVars, reuseVars, sseClientVars>>

NextHandle == HandleSubscribeStream \/ HandleReadLine
SpecHandle == InitHandle /\ [][NextHandle]_vars

-----------------------------------------------------------------------------
(* The claims.                                                             *)

\* the event a scripted SSE line stands for
ScriptEvent(item) == IF item = DataA THEN Ev("Data", <<"a">>) ELSE Ev("Id", <<"7">>)

\* the lines q are: a status line with a code below 400, k - 1 header lines, a blank
\* line and an SSE field line
IsSuccessShape(q, k) ==
    /\ Len(q) >= k + 2
    /\ ScriptCodeOf(q[1]) \in 1..399
    /\ \A i \in 2..k : q[i] = HeaderA
    /\ q[k + 1] = Blank
    /\ q[k + 2] \in {DataA, Id7}

\* C1: a read that meets a status line whose code is >= 400 returns Err(HttpError) with
\* that code; a read that starts at a status line with a code < 400, followed by header
\* lines, a blank line and an SSE field line, returns Progress with that line's event.
C1_StatusLineClassifies ==
    /\ \A i \in 1..Len(taken) :
          (ScriptCodeOf(taken[i]) >= 400 /\ \A j \in 1..(i - 1) : ScriptCodeOf(taken[j]) < 400)
          => /\ last.kind = "HttpError"
             /\ ResponseStatusCode(last.resp) = ScriptCodeOf(taken[i])
    /\ \A k \in 1..MaxConnLines :
          (last.kind # "None" /\ IsSuccessShape(taken \o socket, k))
          => /\ last.kind = "Progress"
             /\ last.ev = ScriptEvent(taken[k + 2])
             /\ Len(taken) = k + 2

\* C1 for the codes of the table of HttpStatusCode only
C1_KnownCodesClassify ==
    /\ \A i \in 1..Len(taken) :
          (/\ ScriptCodeOf(taken[i]) >= 400 /\ ScriptCodeOf(taken[i]) \in KnownCodes
           /\ \A j \in 1..(i - 1) : ScriptCodeOf(taken[j]) < 400)
          => /\ last.kind = "HttpError"
             /\ ResponseStatusCode(last.resp) = ScriptCodeOf(taken[i])
    /\ \A k \in 1..MaxConnLines :
          (last.kind # "None" /\ IsSuccessShape(taken \o socket, k))
          => /\ last.kind = "Progress"
             /\ last.ev = ScriptEvent(taken[k + 2])
             /\ Len(taken) = k + 2

\* C7: from_line on "data:" + " " + s + CRLF is Data(t), t being s without its leading
\* and trailing whitespace and with its interior unchanged, whatever s contains.
C7_DataPayloadKept ==
    output # NoEvent => output = Ev("Data", Trim(PayloadOf(input)))

\* C7 for the payloads that do not contain the text "data:"
C7_PayloadWithoutPrefixKept ==
    (output # NoEvent /\ FindStr(PayloadOf(input), DataPrefix, 1) = 0)
    => output = Ev("Data", Trim(PayloadOf(input)))

\* the lines q are: the status line of a 404, h header lines, then body lines only
IsErrorShape(q, h) ==
    /\ Len(q) >= h + 1
    /\ q[1] = Status(404)
    /\ \A i \in 2..(h + 1) : q[i] \in {HeaderA, HeaderB}
    /\ \A i \in (h + 2)..Len(q) : q[i] \in {BodyX, BodyY}

\* the texts of the lines i..Len(q) of q, one after the other
RECURSIVE TextsFrom(_, _)
TextsFrom(q, i) == IF i > Len(q) THEN <<>> ELSE q[i].text \o TextsFrom(q, i + 1)

\* C8: for an error response (status line of a 404, header lines, body lines, EOF) one
\* read returns HttpError whose header map holds the header lines that followed the
\* status line and whose body is the body lines concatenated in arrival order.
C8_ErrorResponseAccumulated ==
    \A h \in 0..MaxErrLines :
        (last.kind # "None" /\ IsErrorShape(taken \o socket, h))
        => /\ last.kind = "HttpError"
           /\ socket = <<>>
           /\ ResponseStatusCode(last.resp) = 404
           /\ ResponseIsError(last.resp)
           /\ ResponseGetHeader(last.resp, <<"A">>)
                 = IF \E i \in 2..(h + 1) : taken[i] = HeaderA THEN <<"1">> ELSE None
           /\ ResponseGetHeader(last.resp, <<"B">>)
                 = IF \E i \in 2..(h + 1) : taken[i] = HeaderB THEN <<"2">> ELSE None
           /\ DOMAIN last.resp.header \subseteq {<<"A">>, <<"B">>}
           /\ ResponseBodyStr(last.resp) = TextsFrom(taken, h + 2)

\* a 404 with two headers and two body lines has been read
C8_Witness ==
    /\ taken = <<Status(404), HeaderA, HeaderB, BodyX, BodyY>>
    /\ last.kind = "HttpError"
    /\ ResponseBodyStr(last.resp) = BodyX.text \o BodyY.text
    /\ ResponseGetHeader(last.resp, <<"B">>) = <<"2">>

\* C10: a valid status line that arrives while an error response is accumulated starts
\* a new cycle: the read of the error response takes no line from it on, and nothing of
\* the new status line or of the lines after it is in the error's headers or body.
C10_NewStatusLineRestarts ==
    last.kind = "HttpError"
    => /\ \A i, j \in 1..Len(taken) :
             (i < j /\ ScriptCodeOf(taken[i]) >= 400) => ScriptCodeOf(taken[j]) = 0
       /\ \A c \in ScriptCodes : FindStr(ResponseBodyStr(last.resp), Status(c).text, 1) = 0

\* the status lines among the lines fed to the store, and the code each carries
StoreStatusLines == {StatusLineText(200, ReasonOf(200)), StatusLineText(404, ReasonOf(404))}
StoreCodeOf(line) == IF line = StatusLineText(200, ReasonOf(200)) THEN 200 ELSE 404

\* the header names the lines fed to the store can have stored
StoreKeys == {SseHeaderFromLine(l).name : l \in {x \in StoreLines : SseHeaderFromLine(x).ok}}

\* C9: once a valid status line has been added, whatever had been added before it
\* (headers, the blank line, body lines, events), the response holds only that status
\* line: header(k) is None for every k, body() is None and new_event() is None.
C9_StatusLineResets ==
    (history # <<>> /\ history[Len(history)] \in StoreStatusLines)
    => /\ addResult = "Ok"
       /\ response.some
       /\ response.start_line.status_code = StoreCodeOf(history[Len(history)])
       /\ \A k \in StoreKeys : SseResponseHeader(response, k) = None
       /\ SseResponseBody(response) = None
       /\ SseResponseNewEvent(response) = None

\* a status line has been added to a response that had a header, a body and an event
C9_Witness ==
    /\ history = <<StatusLineText(200, ReasonOf(200)), HeaderA.text, CRLF, DataA.text,
                   StatusLineText(404, ReasonOf(404))>>
    /\ response.some
    /\ response.start_line.status_code = 404
    /\ SseResponseHeader(response, <<"A">>) = None

\* before that status line the response had header A and the event "a"
C9_Accumulated ==
    (history = <<StatusLineText(200, ReasonOf(200)), HeaderA.text, CRLF, DataA.text>>)
    => /\ SseResponseHeader(response, <<"A">>) = <<"1">>
       /\ SseResponseNewEvent(response) = <<"a">>
       /\ SseResponseBody(response) # None

\* C2: when the first line read for a call is a status line with a code >= 400, the call
\* returns Err(HttpError(r)), r.status_code() being that code and r.get_header(name) the
\* value of each header line that followed; handle and result are not called.
C2_ErrorStatusReturned ==
    (pc = "returned" /\ consumed # <<>> /\ ScriptCodeOf(consumed[1]) >= 400)
    => /\ outcome.kind = "HttpError"
       /\ ResponseStatusCode(outcome.resp) = ScriptCodeOf(consumed[1])
       /\ (\E i \in 2..Len(consumed) : consumed[i] = HeaderA)
             => ResponseGetHeader(outcome.resp, <<"A">>) = <<"1">>
       /\ events = <<>>
       /\ resultCalls = 0

\* C2 for the codes of the table of HttpStatusCode only
C2_KnownErrorStatusReturned ==
    (/\ pc = "returned" /\ consumed # <<>>
     /\ ScriptCodeOf(consumed[1]) >= 400 /\ ScriptCodeOf(consumed[1]) \in KnownCodes)
    => /\ outcome.kind = "HttpError"
       /\ ResponseStatusCode(outcome.resp) = ScriptCodeOf(consumed[1])
       /\ (\E i \in 2..Len(consumed) : consumed[i] = HeaderA)
             => ResponseGetHeader(outcome.resp, <<"A">>) = <<"1">>
       /\ events = <<>>
       /\ resultCalls = 0

\* a line that starts with data:, event:, id: or retry: and carries an event
IsFieldLine(item) ==
    /\ item.kind = "line"
    /\ \E prefix \in {DataPrefix, EventPrefix, IdPrefix, RetryPrefix} :
          StartsWith(item.text, prefix)
    /\ IsSseOk(SseFromLine(item.text))

\* the events of the SSE field lines among the read_line outcomes q, in the order of q
RECURSIVE FieldEvents(_)
FieldEvents(q) ==
    IF q = <<>> THEN <<>>
    ELSE IF IsFieldLine(Head(q)) THEN <<SseFromLine(Head(q).text)>> \o FieldEvents(Tail(q))
    ELSE FieldEvents(Tail(q))

\* the payloads of the Data events of evs, one after the other
RECURSIVE DataPayloads(_)
DataPayloads(evs) ==
    IF evs = <<>> THEN <<>>
    ELSE IF Head(evs).kind = "Data" THEN Head(evs).val \o DataPayloads(Tail(evs))
    ELSE DataPayloads(Tail(evs))

\* the arguments handle has had, with the event read and not yet handed to it
Delivered == events \o (IF pc = "handling" THEN <<pending>> ELSE <<>>)

\* C3: for a response that is no error response, the arguments of handle are the events
\* of the SSE field lines read so far, in the order the lines were read: one call per
\* field line, none for a status, header or blank line, nothing dropped, duplicated,
\* merged or reordered.
C3_EventsInReadOrder ==
    (pc # "idle" /\ outcome.kind # "HttpError")
    => /\ Delivered = FieldEvents(consumed)
       /\ Len(events) = Cardinality({i \in 1..Len(consumed) : IsFieldLine(consumed[i])})
                          - (IF pc = "handling" THEN 1 ELSE 0)

\* a status line, a header and two field lines have been read, and handle has had the
\* two events in that order
C3_Witness ==
    /\ pc = "returned"
    /\ outcome.kind = "Ok"
    /\ consumed = <<Status(200), HeaderA, DataA, Id7>>
    /\ events = <<Ev("Data", <<"a">>), Ev("Id", <<"7">>)>>

NoErrorRead ==
    \A i \in 1..Len(consumed) : consumed[i] # IoError /\ ScriptCodeOf(consumed[i]) < 400

\* C5: when the call has returned and neither a handle call returned Done or Err nor an
\* error was read, the transport is at EOF, every event of the stream has been handled,
\* Handler.result has been called exactly once, after the last handle call, and the
\* call returns its value: Ok(the accumulation of the payloads in stream order), or
\* HandlerError(e) for its Err(e).
C5_EofReturnsFinalResult ==
    /\ resultCalls <= 1
    /\ resultCalls = 1 => pc = "returned"
    /\ (pc = "returned" /\ lastRet.kind \in {"None", "Progress"} /\ NoErrorRead)
       => /\ socket = <<>>
          /\ events = FieldEvents(consumed)
          /\ readCalls = Len(events) + 1
          /\ resultCalls = 1
          /\ outcome = IF resultRet.kind = "Ok"
                        THEN Outcome("Ok", DataPayloads(FieldEvents(consumed)), NoResponse)
                        ELSE Outcome("HandlerError", resultRet.e, NoResponse)

\* two data lines have been handled with Progress, EOF was read and the accumulation of
\* both payloads is returned
C5_Witness ==
    /\ pc = "returned"
    /\ lastRet.kind = "Progress"
    /\ consumed = <<Status(200), DataA, Id7, DataA>>
    /\ socket = <<>>
    /\ resultCalls = 1
    /\ outcome = Outcome("Ok", <<"a", "a">>, NoResponse)

\* C6: for subscribe and for subscribe_mut, when handle returns Err(e) the loop stops,
\* with no further read and no further handle call, and the call returns
\* Err(HandlerError(e)) with that e.
C6_HandlerErrReturned ==
    lastRet.kind = "Err"
    => /\ pc = "returned"
       /\ readCalls = Len(events)
       /\ resultCalls = 0
       /\ outcome = Outcome("HandlerError", lastRet.e, NoResponse)

\* C6 for subscribe only
C6_SubscribeHandlerErrReturned ==
    (lastRet.kind = "Err" /\ mode = "subscribe")
    => /\ pc = "returned"
       /\ readCalls = Len(events)
       /\ resultCalls = 0
       /\ outcome = Outcome("HandlerError", lastRet.e, NoResponse)

\* C11: for a status line whose code field parses as the unsigned integer n, from_str
\* succeeds and both HttpStatusLine.status_code().num() and HttpResponse.status_code()
\* are n, for the codes of the table and for the others.
C11_CodeRoundTrips ==
    (output # NoEvent /\ ParseU32(CodeTextOf(input)) # None)
    => /\ output.val.ok
       /\ output.num = DecVal(ParseU32(CodeTextOf(input)))
       /\ output.response_code = DecVal(ParseU32(CodeTextOf(input)))

\* C11 for the codes of the table of HttpStatusCode only
C11_KnownCodeRoundTrips ==
    (/\ output # NoEvent /\ ParseU32(CodeTextOf(input)) # None
     /\ DecVal(ParseU32(CodeTextOf(input))) \in KnownCodes)
    => /\ output.val.ok
       /\ output.num = DecVal(ParseU32(CodeTextOf(input)))
       /\ output.response_code = DecVal(ParseU32(CodeTextOf(input)))

\* C12: from_line on "retry:" + v + CRLF is Retry(n) exactly when v without its leading
\* and trailing whitespace is an unsigned decimal integer n <= 2^32 - 1, and is an error
\* in every other case; the number is never wrapped or truncated and no other event
\* kind is returned.
C12_RetryExactlyU32 ==
    output # NoEvent
    => output = IF ParseU32(Trim(RetryValueOf(input))) # None
                THEN Ev("Retry", ParseU32(Trim(RetryValueOf(input))))
                ELSE SseErr("InvalidRetry")

\* C12 for the values that do not contain the text "retry:"
C12_ValueWithoutPrefix ==
    (output # NoEvent /\ FindStr(RetryValueOf(input), RetryPrefix, 1) = 0)
    => output = IF ParseU32(Trim(RetryValueOf(input))) # None
                THEN Ev("Retry", ParseU32(Trim(RetryValueOf(input))))
                ELSE SseErr("InvalidRetry")

\* the values from 2^32 on are errors and u32::MAX is Retry(4294967295)
C12_Range ==
    /\ (output # NoEvent /\ Trim(RetryValueOf(input)) = U32MaxDigits)
          => output = Ev("Retry", U32MaxDigits)
    /\ (output # NoEvent /\ Len(Trim(RetryValueOf(input))) > Len(U32MaxDigits)
                         /\ Head(Trim(RetryValueOf(input))) \in {"1", "9"})
          => output = SseErr("InvalidRetry")
    /\ (output # NoEvent /\ Trim(RetryValueOf(input)) = <<"4", "2", "9", "4", "9", "6", "7", "2", "9", "6">>)
          => output = SseErr("InvalidRetry")

\* the lines the read started from: those it took and those it left
ReadFrom == taken \o socket

\* the lines 1..(i - 1) of q are all in the set ok
AllBefore(q, i, ok) == \A j \in 1..(i - 1) : q[j] \in ok

\* C13: a read that comes to a retry line whose value is no u32, before any event,
\* error response or read failure, returns an error for that line: it returns neither
\* Done nor a later event, and takes no line after it.
C13_BadRetryIsError ==
    \A i \in 1..Len(ReadFrom) :
        (/\ last.kind # "None"
         /\ ReadFrom[i] = RetryBad
         /\ AllBefore(ReadFrom, i, {Status(200), Blank, UnknownLine, UnknownField}))
        => /\ last.kind \notin {"Progress", "Done"}
           /\ Len(taken) = i

\* a line of the body that is not blank, has no SSE field prefix and is no status line
Unrecognized == {UnknownLine, UnknownField}

\* C14: a read that meets unrecognized lines returns no error and no event for them: it
\* returns the event of the first SSE field line after them, or Done when the stream
\* ends with no field line.
C14_UnrecognizedLineSkipped ==
    /\ \A i \in 1..Len(ReadFrom) :
          (/\ last.kind # "None"
           /\ ReadFrom[i] \in {DataA, Id7}
           /\ AllBefore(ReadFrom, i, Unrecognized \cup {Status(200), Blank}))
          => /\ last.kind = "Progress"
             /\ last.ev = ScriptEvent(ReadFrom[i])
             /\ Len(taken) = i
    /\ (/\ last.kind # "None"
        /\ AllBefore(ReadFrom, Len(ReadFrom) + 1, Unrecognized \cup {Status(200), Blank}))
          => /\ last.kind = "Done"
             /\ socket = <<>>

\* a read went over a line with no colon and a line with an unknown field name and
\* returned the event of the data line after them
C14_Witness ==
    /\ taken = <<Status(200), UnknownLine, UnknownField, DataA>>
    /\ last.kind = "Progress"
    /\ last.ev = Ev("Data", <<"a">>)

\* C15: read returns Done exactly when it comes to EOF with no error response in
\* progress: Done is returned with nothing left unread, neither an SSE field line nor an
\* error status line was among the lines taken; a stream of lines that are no field
\* line and no error ends in Done; after an error status line (code >= 400), EOF gives
\* HttpError.
C15_DoneExactlyAtEof ==
    /\ last.kind = "Done"
          => /\ socket = <<>>
             /\ \A i \in 1..Len(taken) :
                   /\ taken[i] # IoError
                   /\ ~IsFieldLine(taken[i])
                   /\ ScriptCodeOf(taken[i]) < 400
    /\ (/\ last.kind # "None"
        /\ AllBefore(ReadFrom, Len(ReadFrom) + 1, Unrecognized \cup {Status(200), Blank}))
          => last.kind = "Done"
    /\ \A i \in 1..Len(ReadFrom) :
          (/\ last.kind # "None"
           /\ ScriptCodeOf(ReadFrom[i]) >= 400
           /\ AllBefore(ReadFrom, i, Unrecognized \cup {Status(200), Blank})
           /\ \A j \in 1..Len(ReadFrom) : ReadFrom[j] # IoError)
          => /\ last.kind = "HttpError"
             /\ socket = <<>>

\* C15 with the error status lines limited to the codes of the table of HttpStatusCode
C15_KnownCodesDoneExactlyAtEof ==
    /\ last.kind = "Done"
          => /\ socket = <<>>
             /\ \A i \in 1..Len(taken) :
                   /\ taken[i] # IoError
                   /\ ~IsFieldLine(taken[i])
                   /\ ScriptCodeOf(taken[i]) \in KnownCodes => ScriptCodeOf(taken[i]) < 400
    /\ (/\ last.kind # "None"
        /\ AllBefore(ReadFrom, Len(ReadFrom) + 1, Unrecognized \cup {Status(200), Blank}))
          => last.kind = "Done"
    /\ \A i \in 1..Len(ReadFrom) :
          (/\ last.kind # "None"
           /\ ScriptCodeOf(ReadFrom[i]) >= 400 /\ ScriptCodeOf(ReadFrom[i]) \in KnownCodes
           /\ AllBefore(ReadFrom, i, Unrecognized \cup {Status(200), Blank})
           /\ \A j \in 1..Len(ReadFrom) : ReadFrom[j] # IoError)
          => /\ last.kind = "HttpError"
             /\ socket = <<>>

\* C16: a read that took a failed read_line returns Err(ConnectionError), in the header
\* section, in the event stream and while an error response is accumulated.
C16_ReadFailureIsConnectionError ==
    (\E i \in 1..Len(taken) : taken[i] = IoError) => last.kind = "ConnectionError"

\* C16 for the read failures that come before any error status line
C16_FailureOutsideErrorResponse ==
    (\E i \in 1..Len(taken) :
        /\ taken[i] = IoError
        /\ \A j \in 1..(i - 1) : ScriptCodeOf(taken[j]) \notin (KnownCodes \ 1..399))
    => last.kind = "ConnectionError"

\* C20: after k calls of subscribe / subscribe_mut the connector's connect count is k,
\* while a call runs and whatever it returned: connect is invoked once per call and
\* never again by the loop.
C20_OneConnectPerCall ==
    /\ connected_times = calls
    /\ pc = "idle" => calls = 0

\* two calls have been made, the second ended by a connection error, and the connect
\* count is 2
C20_Witness ==
    /\ calls = 2
    /\ connected_times = 2
    /\ pc = "returned"
    /\ \E i \in 1..Len(consumed) : consumed[i] = IoError
    /\ outcome.kind = "ConnectionError"

\* C17: when ErrorHandler.catch returns Retry, the read loop restarts from a
\* fresh connect and send of the request: whenever the call is reading, it
\* reads a stream opened after the last Retry, so it has connected and sent
\* once more than it has retried
C17_RetryReconnects ==
    cpc = "reading" => (connects = retries + 1 /\ sends = retries + 1)

\* handle_event gives up the client: one call never connects or sends twice
C17_OneConnectPerHandleEvent == connects <= 1 /\ sends <= connects

\* the step after a Retry keeps the reader and opens no connection
C17_RetryKeepsReader ==
    [][(cpc = "catching" /\ cpc' = "reading")
          => (reader' = reader /\ connects' = connects /\ sends' = sends)]_vars

\* the core caps nothing: every Retry the handler returned restarted the loop
C17_RetriesAsHandlerCounts ==
    retries = count /\ (error_handler = "NonCaughtError" => retries = 0)

\* C18: with the ErrHandler of the demo (Retry while its counter allows, then
\* Finished) and a connector that fails the connection, the call returns
\* Finished after exactly 3 catch calls
C18_ThreeCatchesThenFinished ==
    (cpc = "returned" /\ error_handler = "ErrHandler" /\ ~net.connect)
        => (catches = 3 /\ clientRet = ClientOk("Finished"))

\* a failed connect is returned (or panics) before any catch call
C18_FailedConnectNeverCaught ==
    ~net.connect => (catches = 0 /\ cpc \in {"idle", "returned"}
                     /\ (cpc = "returned" => clientRet.kind \in {"Err", "Panic"}))

\* ErrHandler returns Retry to its first three calls and Finished to the fourth
C18_FinishedByFourthCatch ==
    error_handler = "ErrHandler"
        => /\ catches <= 4
           /\ retries = (IF catches < 3 THEN catches ELSE 3)
           /\ (catches = 4 => (cpc = "returned" /\ clientRet = ClientOk("Finished")))

\* the fourth catch call does happen
C18_FourthCatchReached == catches = 4

\* the call always returns
C18_Terminates == <>(cpc = "returned")

\* what went wrong in a call that has returned: the connect, the request write,
\* or a line of the reader
ClientFailed ==
    \/ ~net.connect
    \/ ~net.send
    \/ catches >= 1

\* C19: with no error handler registered (NonCaughtError), a connect or request
\* failure, a read-line failure, an invalid response line and an HTTP error
\* response are each returned to the caller as Err carrying that error; no
\* event handler call follows and nothing is retried
C19_ErrorsReturnedAsErr ==
    (error_handler = "NonCaughtError" /\ cpc = "returned" /\ ClientFailed)
        => /\ clientRet.kind = "Err"
           /\ catches >= 1 => clientRet.e \in StreamErrors
           /\ retries = 0

\* C19 for a client that connects through a proxy
C19_ProxyErrorsReturnedAsErr ==
    (error_handler = "NonCaughtError" /\ proxy_url /\ cpc = "returned" /\ ClientFailed)
        => /\ clientRet.kind = "Err"
           /\ catches >= 1 => clientRet.e \in StreamErrors
           /\ retries = 0

\* with NonCaughtError the catch step returns: no read and no handle call follows
C19_NothingFollowsCatch ==
    [][(cpc = "catching" /\ error_handler = "NonCaughtError")
          => (cpc' = "returned" /\ clientRet' = ClientErr(caught)
              /\ reads' = reads /\ handled' = handled /\ connects' = connects)]_vars

\* the error status lines of the framing script, one for each HTTP version
ErrorStatusLines == {Status(404), StatusV(HTTP10, 404), StatusV(HTTP20, 404)}

\* C23: a status line is recognized for each of HTTP/1.0, HTTP/1.1 and HTTP/2.0: a
\* read whose first line is an error status line of any of these versions returns
\* HttpError with that code
C23_EveryVersionRecognized ==
    (last.kind # "None" /\ taken # <<>> /\ taken[1] \in ErrorStatusLines)
        => (last.kind = "HttpError" /\ ResponseStatusCode(last.resp) = 404)

\* C23 for HTTP/1.1 only
C23_Version11Recognized ==
    (last.kind # "None" /\ taken # <<>> /\ taken[1] = Status(404))
        => (last.kind = "HttpError" /\ ResponseStatusCode(last.resp) = 404)

\* a status line of HTTP/1.0 or HTTP/2.0 is never taken for a status line
C23_OtherVersionsNotParsed ==
    \A i \in 1..Len(socket) :
        socket[i] \in {StatusV(HTTP10, 200), StatusV(HTTP10, 404), StatusV(HTTP20, 404)}
            => ~HttpStatusLineFromStr(socket[i].text).ok

\* the last read took a line of q before its position i that it found to be an error
\* status line: from there on it accumulates an error response
ErrorStatusBefore(q, i) ==
    \E j \in 1..(i - 1) :
        /\ q[j].kind = "line"
        /\ LineClass(q[j].text) = "error_status"

\* C24: a line that starts with data:, event:, id: or retry: and has a valid value
\* is returned by the read that takes it as the matching event, never swallowed as a
\* header; and what a read returns as an event is such a line, never "Data: a"
C24_SseLineNeverSwallowed ==
    /\ \A i \in 1..Len(taken) :
          taken[i] \in SseLines
              => /\ i = Len(taken)
                 /\ last.kind = "Progress"
                 /\ last.ev = SseLineEvent(taken[i])
    /\ last.kind = "Progress" => taken[Len(taken)] \in SseLines

\* C24, amended: the same, for the lines a read takes while it is not accumulating
\* an error response
C24_SseLineIsEventOutsideErrorResponse ==
    /\ \A i \in 1..Len(taken) :
          (taken[i] \in SseLines /\ ~ErrorStatusBefore(taken, i))
              => /\ i = Len(taken)
                 /\ last.kind = "Progress"
                 /\ last.ev = SseLineEvent(taken[i])
    /\ last.kind = "Progress" => taken[Len(taken)] \in SseLines

\* a read that passes a status line and "Data: a" and returns the retry: line as event
C24_Witness ==
    /\ taken = <<Status(200), DataUpper, RetryOk>>
    /\ last.kind = "Progress"
    /\ last.ev = Ev("Retry", <<"5">>)

\* the success status lines of the framing script
SuccessStatusLines == {Status(200), StatusV(HTTP10, 200)}

\* a read made after an event was delivered, on a socket that begins with a success
\* status line and an SSE line: both are taken and the SSE line is the event
NextResponseDelivered(statuses) ==
    (/\ last.kind = "Progress" /\ Len(socket) >= 2
     /\ socket[1] \in statuses /\ socket[2] \in SseLines)
        => /\ taken' = <<socket[1], socket[2]>>
           /\ last'.kind = "Progress"
           /\ last'.ev = SseLineEvent(socket[2])

\* a read made after an event was delivered, on a socket that begins with an error
\* status line: it returns HttpError for the new response
NextResponseIsError(statuses) ==
    (last.kind = "Progress" /\ Len(socket) >= 1 /\ socket[1] \in statuses)
        => /\ last'.kind = "HttpError"
           /\ ResponseStatusCode(last'.resp) = 404

\* C28: on a kept-alive connection a success status line arriving mid-body is consumed
\* without event or error and the SSE lines that follow are delivered, and an error
\* status line arriving mid-body after events were delivered makes that read return
\* HttpError for the new response
C28_ResponsesFollowOneAnother ==
    [][NextResponseDelivered(SuccessStatusLines) /\ NextResponseIsError(ErrorStatusLines)]_vars

\* C28 for status lines announced with HTTP/1.1
C28_Version11ResponsesFollow ==
    [][NextResponseDelivered({Status(200)}) /\ NextResponseIsError({Status(404)})]_vars

\* the line is held by the error response: as a header under its name, or in the body
HeldBy(resp, line) ==
    IF HttpHeaderFromLine(line).ok
    THEN \A k \in DOMAIN HttpHeaderFromLine(line).headers :
             ResponseGetHeader(resp, k) = HttpHeaderFromLine(line).headers[k]
    ELSE FindStr(ResponseBodyStr(resp), line, 1) # 0

\* the read that returned HttpError went up to the end of the stream and its response
\* holds every line that followed the error status line
ErrorResponseComplete ==
    /\ socket = <<>>
    /\ \A i \in 1..Len(taken) : taken[i].kind = "line"
    /\ \A i \in 1..Len(taken) :
          ErrorStatusBefore(taken, i) => HeldBy(last.resp, taken[i].text)

\* C29: HttpError is produced lazily: a read that meets an error status line returns
\* HttpError only after the transport has reported end of stream, with every line
\* received after the status line in the response and none left unread
C29_HttpErrorOnlyAtEof == last.kind = "HttpError" => ErrorResponseComplete

\* C29 for streams in which no read_line fails
C29_HttpErrorAtEofWithoutReadFailure ==
    (last.kind = "HttpError" /\ \A i \in 1..Len(ReadFrom) : ReadFrom[i].kind = "line")
        => ErrorResponseComplete

\* the line i of q lies in the header section of a response: a success status line
\* precedes it with no blank separator line in between
InHeaderSection(q, i) ==
    \E j \in 1..(i - 1) :
        /\ q[j] = Status(200)
        /\ \A k \in (j + 1)..(i - 1) : q[k] # Blank

\* C30: events are produced only in the body: a 'key: value' line between a success
\* status line and the blank separator is consumed as a header and yields no Progress,
\* whatever its name
C30_NoEventInHeaderSection ==
    last.kind = "Progress" => ~InHeaderSection(taken, Len(taken))

\* in the header section a line whose name is no SSE field yields no event
C30_OtherHeadersYieldNoEvent ==
    \A i \in 1..Len(taken) :
        (InHeaderSection(taken, i) /\ taken[i] \in {HeaderA, DataUpper})
            => ~(i = Len(taken) /\ last.kind = "Progress")

\* the step adds a body line: the response is in its body and the line is no status line
AddsBodyLine(line) ==
    /\ response.some /\ response.is_next_body
    /\ history' = Append(history, line)
    /\ ~SseStartLineFromLine(line).ok

\* what the step that adds the body line leaves of the response, and the event it
\* exposes: the payload of a line that starts with "data:", nothing for another line
BodyLineAdded(line) ==
    /\ response'.start_line = response.start_line
    /\ response'.headers = response.headers
    /\ IF StartsWith(line, DataPrefix)
       THEN /\ SseResponseNewEvent(response')
                   = Trim(SubSeq(line, Len(DataPrefix) + 1, Len(line)))
            /\ SseResponseBody(response') = SseResponseBody(response)
       ELSE SseResponseNewEvent(response') = None

\* C27: in the incremental parser, after each added body line new_event() is Some(p)
\* if and only if the line just added was a data line, p being the trimmed text after
\* "data:"; data lines never change body(), body lines never change the status line
\* or the headers
C27_EventOnItsOwnStep ==
    [][\A line \in ParseLines : AddsBodyLine(line) => BodyLineAdded(line)]_vars

\* C27 for body lines that hold "data:" at their start or not at all
C27_EventOnItsOwnStepPrefixOnly ==
    [][\A line \in ParseLines \ {MidData.text} :
           AddsBodyLine(line) => BodyLineAdded(line)]_vars

\* the URL text was parsed and its scheme is http or https
UrlParsed == output # NoUrl /\ SchemaFromStr(input.scheme) # "InvalidSchema"

\* the port, host and path the parts of the URL text stand for
UrlExpected ==
    /\ output.ok
    /\ output.port = IF ParseU16(input.port).ok THEN ParseU16(input.port).val
                     ELSE SchemaPort(SchemaFromStr(input.scheme))
    /\ output.host = input.host
    /\ output.path = IF input.path = <<>> THEN <<"/">> ELSE input.path

\* C26: Url::from_str gives the explicitly given port whenever the text has one, in
\* the form host/path:port and in the form host:port/path, and the default of the
\* scheme when it has none; host and path are those of the text, "/" for no path
C26_UrlPartsRecovered ==
    (UrlParsed /\ (input.port = <<>> \/ ParseU16(input.port).ok)) => UrlExpected

\* C26 for the form host/path:port of the test, and for texts without a port or
\* without a path
C26_TestedFormRecovered ==
    (/\ UrlParsed /\ (input.port = <<>> \/ ParseU16(input.port).ok)
     /\ (input.form = "tested" \/ input.port = <<>> \/ input.path = <<>>))
        => UrlExpected

\* in the form host:port/path the port is the default of the scheme and the path "/"
C26_UsualFormLosesPortAndPath ==
    (/\ UrlParsed /\ input.form = "usual" /\ input.port # <<>> /\ input.path # <<>>)
        => /\ output.ok
           /\ output.port = SchemaPort(SchemaFromStr(input.scheme))
           /\ output.path = <<"/">>
           /\ output.host = input.host

\* the exchange returned after the CONNECT request was written
ProxyReturned == ppc = "returned" /\ tcp_stream.written # <<>>

\* the bytes the proxy sends before EOF or the first read error
RECURSIVE ProxySent(_)
ProxySent(rs) ==
    IF rs = <<>> \/ Head(rs).kind # "Ok" THEN <<>>
    ELSE Head(rs).bytes \o ProxySent(Tail(rs))

\* C22: the exchange succeeds exactly when "Established" appears in the bytes
\* the proxy sends before EOF or a read error, however they are split across
\* reads; otherwise it returns ProxyConnectionError
C22_SucceedsIffEstablishedSent ==
    ProxyReturned =>
        LET sent == ProxySent(tcp_stream.read \o tcp_stream.incoming)
        IN  IF ContainsEstablished(sent) THEN proxyRet = "Ok"
            ELSE proxyRet = "ProxyConnectionError"

\* proxy_connection succeeds exactly when one read alone brings "Established"
C22_SucceedsIffOneReadHasIt ==
    (ProxyReturned /\ proxy_impl = "ClientConnection") =>
        LET rs == tcp_stream.read \o tcp_stream.incoming
            seen == \E i \in 1..Len(rs) :
                        /\ \A j \in 1..i : rs[j].kind = "Ok"
                        /\ ContainsEstablished(rs[i].bytes)
        IN  IF seen THEN proxyRet = "Ok" ELSE proxyRet = "ProxyConnectionError"

\* C21: on the proxy socket the CONNECT request is the first write and the only
\* one until a response containing "Established" has been read; if none is
\* read, nothing else is ever written
C21_OnlyConnectBeforeEstablished ==
    /\ tcp_stream.written # <<>> => tcp_stream.written[1] = "CONNECT"
    /\ Len(tcp_stream.written) > 1 => ContainsEstablished(ProxyBytes(tcp_stream.read))

\* C21 for ClientConnection::proxy_connection alone
C21_ConnectorOnlyConnectBeforeEstablished ==
    proxy_impl = "ClientConnection" => C21_OnlyConnectBeforeEstablished

\* nothing but the CONNECT request is written before the exchange returned Ok
C21_OnlyConnectBeforeOk ==
    /\ tcp_stream.written # <<>> => tcp_stream.written[1] = "CONNECT"
    /\ Len(tcp_stream.written) > 1 => proxyRet = "Ok"

\* what a header, json or bearer_auth call sets: header names and values, in order
SettingsOf(call) ==
    IF call.op = "header" THEN <<[key |-> call.key, value |-> call.value]>>
    ELSE IF call.op = "bearer_auth"
    THEN <<[key |-> Authorization, value |-> <<"B", "e", "a", "r", "e", "r", " ">> \o call.value]>>
    ELSE <<[key |-> ContentType, value |-> ApplicationJson],
           [key |-> ContentLength, value |-> DecStr(StrLen(ToJson(call.json)))]>>
RECURSIVE SettingsOfCalls(_)
SettingsOfCalls(calls_) ==
    IF calls_ = <<>> THEN <<>>
    ELSE SettingsOf(Head(calls_)) \o SettingsOfCalls(Tail(calls_))

\* the value of the last setting of a name
LastSetting(settings, name) ==
    LET i == CHOOSE i \in 1..Len(settings) :
                 /\ settings[i].key = name
                 /\ \A j \in (i + 1)..Len(settings) : settings[j].key # name
    IN  settings[i].value

\* the JSON text of the last json call, empty without one
RECURSIVE LastJsonText(_)
LastJsonText(calls_) ==
    IF calls_ = <<>> THEN <<>>
    ELSE IF calls_[Len(calls_)].op = "json" THEN ToJson(calls_[Len(calls_)].json)
    ELSE LastJsonText(SubSeq(calls_, 1, Len(calls_) - 1))

\* the names in ascending order, each once
AscendingNames(names) ==
    CHOOSE q \in [1..Cardinality(names) -> names] :
        \A i, j \in DOMAIN q : i < j => StrLess(q[i], q[j])

RECURSIVE ExpectedHeaderLines(_, _)
ExpectedHeaderLines(settings, names) ==
    IF names = <<>> THEN <<>>
    ELSE Head(names) \o <<":", " ">> \o LastSetting(settings, Head(names)) \o CRLF
             \o ExpectedHeaderLines(settings, Tail(names))

PostRequestBuilt == request # <<>> /\ StartsWith(request, <<"P", "O", "S", "T">>)

\* C25: a POST request is the request line, Host, Accept and Connection:
\* keep-alive, then one line Name: Value per configured header name with the
\* value of its last setting, the names ascending, then an empty line and the
\* body, each line ending in CRLF; json sets the body to the JSON text,
\* Content-Type to application/json and Content-Length to the bytes of the body
C25_PostRequestSerialized ==
    PostRequestBuilt =>
        LET settings == SettingsOfCalls(configured)
            names == {settings[i].key : i \in 1..Len(settings)}
        IN  request =
                <<"P", "O", "S", "T">> \o SP \o request_builder.url.path \o SP \o HTTP11 \o CRLF
                \o <<"H", "o", "s", "t", ":", " ">> \o request_builder.url.host \o CRLF
                \o <<"A", "c", "c", "e", "p", "t", ":", " ", "t", "e", "x", "t", "/", "e", "v", "e", "n", "t", "-", "s", "t", "r", "e", "a", "m">> \o CRLF
                \o <<"C", "o", "n", "n", "e", "c", "t", "i", "o", "n", ":", " ", "k", "e", "e", "p", "-", "a", "l", "i", "v", "e">> \o CRLF
                \o ExpectedHeaderLines(settings, AscendingNames(names))
                \o CRLF
                \o LastJsonText(configured)

\* a POST request was built after a header was set twice, json was called with a
\* text of more bytes than characters, and a name below Content-Length was set
C25_Witness ==
    /\ PostRequestBuilt
    /\ Len(configured) = 3
    /\ configured[1].op = "header" /\ configured[1].key = ContentType
    /\ configured[2].op = "json" /\ configured[2].json.kind = "str"
    /\ configured[3].op = "bearer_auth"

\* the step gives the text to the store while it awaits a status line
AwaitingStatusLine(text) == ~response.some /\ history' = Append(history, text)

\* C31: while the store awaits a status line, a non-blank line that is no valid
\* status line makes evaluate return Err and the store keeps awaiting; a stray
\* blank line gives no error and the store keeps awaiting
C31_AwaitingStatusLine ==
    [][\A text \in StoreLines :
           (AwaitingStatusLine(text) /\ ~SseStartLineFromLine(text).ok)
               => /\ ~response'.some
                  /\ addResult' = IF text = CRLF THEN "Ok" ELSE "Err"]_vars

\* C31 without the blank line
C31_NonBlankIsProtocolError ==
    [][\A text \in StoreLines \ {CRLF} :
           (AwaitingStatusLine(text) /\ ~SseStartLineFromLine(text).ok)
               => (~response'.some /\ addResult' = "Err")]_vars

\* the blank line is an error as well
C31_BlankIsProtocolError ==
    [][AwaitingStatusLine(CRLF) => (~response'.some /\ addResult' = "Err")]_vars

\* C33: when evaluate returns Err for a line, the store still holds the response
\* accumulated before that line
C33_ErrKeepsResponse ==
    [][(history' # history /\ addResult' = "Err") => response' = response]_vars

\* after an Err the store holds no response
C33_ErrEmptiesStore ==
    [][(history' # history /\ addResult' = "Err") => ~response'.some]_vars

\* C34: evaluate_lines never panics: each call returns Ok or Err
C34_EvaluateLinesNeverPanics == addResult # "Panic"

\* evaluate_lines panics only for a text of no line given to a store that holds
\* no response
C34_PanicsOnlyOnEmptyStore ==
    addResult = "Panic"
        => /\ history[Len(history)] = <<>>
           /\ ~response.some

\* the response is one of an error status line among the lines q
ErrorResponseOf(r, q) ==
    /\ ResponseStatusCode(r) >= 400
    /\ ResponseIsError(r)
    /\ \E i \in 1..Len(q) :
           /\ q[i].kind = "line"
           /\ HttpStatusLineFromStr(q[i].text).ok
           /\ HttpStatusLineFromStr(q[i].text) = r.status_line

RECURSIVE AllIn(_, _)
AllIn(q, items) == q = <<>> \/ (Head(q) \in items /\ AllIn(Tail(q), items))
SuccessfulStream(q) ==
    \E h \in 1..Len(q) :
        /\ q[1] = Status(200)
        /\ AllIn(SubSeq(q, 2, h - 1), {HeaderA})
        /\ h >= 2 /\ q[h] = Blank
        /\ h < Len(q) /\ AllIn(SubSeq(q, h + 1, Len(q)), {DataA, DataB})

\* the trimmed payloads of the data lines of the stream, in stream order
RECURSIVE DataLinePayloads(_)
DataLinePayloads(q) ==
    IF q = <<>> THEN <<>>
    ELSE (IF Head(q) \in {DataA, DataB}
          THEN <<Trim(SubSeq(Head(q).text, Len(DataPrefix) + 1, Len(Head(q).text)))>>
          ELSE <<>>) \o DataLinePayloads(Tail(q))

\* C35: for the stream of a successful response handle_subscribe_event calls
\* EventHandler::handle once per data line, in stream order, with the trimmed
\* payload, until the handler finishes or the stream ends, and invokes no error
\* handler
C35_EventsOfSuccessfulResponse ==
    (hpc = "returned" /\ handlers.send /\ SuccessfulStream(stream))
        => /\ catch_calls = <<>>
           /\ Len(handled_events) <= Len(DataLinePayloads(stream))
           /\ handled_events = SubSeq(DataLinePayloads(stream), 1, Len(handled_events))
           /\ (handlerRet = "Ok" /\ nread = Len(stream))
                  => handled_events # <<>>

\* the call returns from catch_response_error when it has read the blank separator
\* line, whose length is below 5, with no event handled
C35_ReturnsAtSeparator ==
    (hpc = "returned" /\ handlers.send /\ SuccessfulStream(stream))
        => /\ handled_events = <<>>
           /\ catch_calls = <<[fn |-> "catch_response_error",
                               handler |-> handlers.response # "None"]>>
           /\ stream[nread] = Blank

\* EventHandler::handle is never called
C35_NoEventHandled == handled_events = <<>>

\* the lines read after the status line of the error response, a read error left out
AccumulatedLines ==
    LET k == CHOOSE i \in 1..Len(taken) : taken[i] = Status(404)
                                           /\ \A j \in 1..(i - 1) : taken[j] # Status(404)
    IN  SelectSeq(SubSeq(taken, k + 1, Len(taken)), LAMBDA o : o.kind = "line")

HasColon(o) == Contains(o.text, ":")
NameOf(o)  == Trim(SubSeq(o.text, 1, Find(o.text, ":") - 1))
ValueOf(o) == Trim(SubSeq(o.text, Find(o.text, ":") + 1, Len(o.text)))

RECURSIVE TextsOf(_)
TextsOf(q) == IF q = <<>> THEN <<>> ELSE Head(q).text \o TextsOf(Tail(q))

\* C36: while an error response is accumulated, every line with a colon is stored
\* as a header, name and value trimmed, the last value winning for a repeated name,
\* also after the blank separator line; every other line, the blank separator
\* included, is appended verbatim to the body in arrival order
C36_ErrorLinesByColon ==
    last.kind = "HttpError" =>
        LET q == AccumulatedLines
            colon == SelectSeq(q, HasColon)
            names == {NameOf(colon[i]) : i \in 1..Len(colon)}
        IN  /\ DOMAIN last.resp.header = names
            /\ \A i \in 1..Len(colon) :
                   (\A j \in (i + 1)..Len(colon) : NameOf(colon[j]) # NameOf(colon[i]))
                       => ResponseGetHeader(last.resp, NameOf(colon[i])) = ValueOf(colon[i])
            /\ ResponseBodyStr(last.resp)
                   = TextsOf(SelectSeq(q, LAMBDA o : ~HasColon(o)))

\* an error response with a header set twice, the second time after the blank
\* separator line, and a body line
C36_Witness ==
    /\ last.kind = "HttpError"
    /\ taken = <<Status(404), HeaderA, Blank, HeaderA2>>
    /\ ResponseGetHeader(last.resp, <<"A">>) = <<"2">>
    /\ ResponseBodyStr(last.resp) = CRLF

\* C37: with a transport that gives finitely many lines and then EOF or a read
\* error, every read consumes some of the remaining lines, each line is consumed by
\* one read, a subscribe / subscribe_mut call makes at most (number of lines + 1)
\* read calls, and the call ends by returning
C37_CallReturns ==
    /\ readCalls <= Len(consumed) + 1
    /\ pc = "returned" => outcome.kind # "Panic"

\* a call makes at most one read more than the lines it consumed
C37_ReadsBounded == readCalls <= Len(consumed) + 1

\* a read moves lines from the socket to the call that reads, none lost, none twice
C37_EachLineReadOnce ==
    [][readCalls' = readCalls + 1
          => /\ consumed' \o socket' = consumed \o socket
             /\ Len(socket') <= Len(socket)]_vars

\* what is left to do for the call that is under way: two steps for every line on
\* the socket, one step more to handle an event
StepsLeft == 2 * Len(socket) + (IF pc = "handling" THEN 1 ELSE 0)

\* every step of a call ends the call or leaves fewer steps to do, and a read has
\* one of its four results whatever is on the socket: the call ends
C37_CallEnds ==
    [][(pc \in {"reading", "handling"} /\ (readCalls' # readCalls \/ events' # events))
          => /\ pc' = "returned" \/ StepsLeft' < StepsLeft
             /\ SseConnectionRead(socket).kind
                    \in {"Progress", "Done", "HttpError", "ConnectionError"}]_vars

\* the call ends without returning only in the Err arm of subscribe_mut
C37_PanicOnlyInErrArm ==
    (pc = "returned" /\ outcome.kind = "Panic")
        => (mode = "subscribe_mut" /\ lastRet.kind = "Err")

ConnectRequestBuilt == request # <<>> /\ StartsWith(request, <<"C", "O", "N", "N", "E", "C", "T">>)

\* the bytes of a CONNECT request for host and port
ConnectBytes(host, port) ==
    <<"C", "O", "N", "N", "E", "C", "T", " ">> \o host \o <<":">> \o DecStr(port)
        \o <<" ", "H", "T", "T", "P", "/", "1", ".", "1", "\r", "\n">>
        \o <<"H", "o", "s", "t", ":", " ">> \o host \o <<":">> \o DecStr(port)
        \o <<"\r", "\n", "\r", "\n">>

\* C40: the CONNECT request depends on the target host and port only: whatever
\* method, headers, bearer token and JSON body the builder was given, the bytes of
\* connect_request() are the CONNECT line and the Host line of host:port and an
\* empty line, so no Authorization header and no body is written to the proxy
C40_ConnectRequestOfTargetOnly ==
    ConnectRequestBuilt =>
        /\ request = ConnectBytes(request_builder.url.host, request_builder.url.port)
        /\ FindStr(request, Authorization, 1) = 0
        /\ \A u \in RequestUrls :
               (UrlFromStr(u).host = request_builder.url.host
                    /\ UrlFromStr(u).port = request_builder.url.port)
               => request = ToRequest([url |-> UrlFromStr(u), method |-> "Connect",
                                       headers |-> BTreeEmpty, body |-> <<>>])

\* a CONNECT request was built of a POST builder with a bearer token and a JSON body
C40_Witness ==
    /\ ConnectRequestBuilt
    /\ request_builder.method = "Post"
    /\ request_builder.body # <<>>
    /\ Authorization \in DOMAIN request_builder.headers

\* the builder the operations ops make of builder b, a send* giving a new builder
RECURSIVE BuilderAfterOps(_, _)
BuilderAfterOps(b, ops) ==
    IF ops = <<>> THEN b
    ELSE IF Head(ops) \in SendOps THEN BuilderAfterOps(RequestBuilderNew(b.url), Tail(ops))
    ELSE BuilderAfterOps(ClientConfigure(Head(ops), b), Tail(ops))

\* the operations called since the last send* among the first n
RECURSIVE OpsSinceSend(_, _)
OpsSinceSend(ops, n) ==
    IF n = 0 \/ ops[n] \in SendOps THEN <<>>
    ELSE Append(OpsSinceSend(ops, n - 1), ops[n])

\* the positions of the send* calls among the operations
SendPositions(ops) == {i \in 1..Len(ops) : ops[i] \in SendOps}

\* C39: after any sequence of SseClient operations the request builder is
\* present, no operation has found it None; right after a send* call it is a new
\* builder for the same URL, with the method GET, no headers and an empty body;
\* and the request of a send* call after the first is the request of a new
\* builder with the operations called since the send* before it, so nothing
\* configured before a send carries over to the next
C39_BuilderPresentAndFreshAfterSend ==
    /\ Len(req_builder) = 1
    /\ \A i \in 1..Len(client_ops) : client_ops[i] # "panic"
    /\ Len(subscribed) = Cardinality(SendPositions(client_ops))
    /\ \A k \in 1..Len(subscribed) : subscribed[k].url = req_builder[1].url
    /\ (client_ops # <<>> /\ client_ops[Len(client_ops)] \in SendOps)
           => /\ req_builder[1].method = "Get"
              /\ DOMAIN req_builder[1].headers = {}
              /\ req_builder[1].body = <<>>
    /\ \A n \in SendPositions(client_ops) :
           LET k == Cardinality({i \in SendPositions(client_ops) : i <= n})
           IN  k > 1 =>
                   subscribed[k].value =
                       ToRequest(BuilderAfterOps(RequestBuilderNew(req_builder[1].url),
                                                 OpsSinceSend(client_ops, n - 1)))

\* a client built with post and a bearer token has sent twice: the first request is
\* a POST with the Authorization header, the second the plain GET of a new builder
C39_Witness ==
    /\ Len(client_ops) = 3
    /\ client_ops[1] = "json" /\ client_ops[2] = "send_mut" /\ client_ops[3] = "send"
    /\ StartsWith(subscribed[1].value, <<"P", "O", "S", "T">>)
    /\ FindStr(subscribed[1].value, Authorization, 1) # 0
    /\ StartsWith(subscribed[2].value, <<"G", "E", "T">>)
    /\ FindStr(subscribed[2].value, Authorization, 1) = 0

\* the lines of the earlier responses that the call has read so far
LeftoverRead == SubSeq(leftover, 1, IF Len(consumed) < Len(leftover) THEN Len(consumed) ELSE Len(leftover))

\* C38: the subscriber gives every call the one connection and never drains it:
\* the lines a call left unread are the first lines the next call reads, before
\* any line set for the new response, and unless the call ends in an HTTP error
\* its handler has their events first, in order
C38_LeftoverLinesFirst ==
    pc # "idle" =>
        /\ Len(consumed \o socket) >= Len(leftover)
        /\ SubSeq(consumed \o socket, 1, Len(leftover)) = leftover
        /\ outcome.kind # "HttpError" =>
               /\ Len(Delivered) >= Len(FieldEvents(LeftoverRead))
               /\ SubSeq(Delivered, 1, Len(FieldEvents(LeftoverRead))) = FieldEvents(LeftoverRead)

\* the first call ended when its handler returned Done with an id line unread, a new
\* response was set, and the handler of the second call had the event of the id line
\* before the event of the new response
C38_Witness ==
    /\ calls = 2
    /\ leftover = <<Id7>>
    /\ consumed = <<Id7, DataA>>
    /\ events = <<Ev("Id", <<"7">>), Ev("Data", <<"a">>)>>

====
